---- MODULE Spec2Model ----
(***************************************************************************)
(* Verification model of the internal PKI (apps/pki) and of the mTLS + MFA *)
(* authentication pipeline (apps/authentication).                          *)
(*                                                                         *)
(* Conventions                                                             *)
(*   - text values (serial numbers, PEM, hex headers) are sequences of     *)
(*     one-character strings, so that str(), int(.., 16) and re.sub are    *)
(*     computed, not assumed;                                              *)
(*   - request paths are sequences of path segments; startswith is the     *)
(*     prefix relation on them;                                            *)
(*   - the clock `now` counts days; validity_days are days.                *)
(***************************************************************************)
EXTENDS Integers, Sequences, FiniteSets, TLC

(***************************************************************************)
(* Bounds of the model                                                     *)
(***************************************************************************)
NumIssuers == 2        \* concurrent issuance operations
MaxIssues == 3         \* issuance operations started in one behaviour
MaxTime == 2           \* days the clock may advance
MaxCAs == 2            \* CertificateAuthority rows created in one behaviour
MaxFailures == 2       \* failed MFA submissions in a row that are counted

(***************************************************************************)
(* Program constants                                                       *)
(***************************************************************************)
CAManagerFirstSerial == 1        \* CAManager.create_ca: serial_number=1
CreateCaFirstSerial == 1000      \* create_ca command: serial_number=1000
DefaultValidityDays == 365       \* issue_user_certificate(validity_days=365)
ShortValidityDays == 1           \* an operator-chosen --days value
TotpValidWindow == 1             \* totp.verify(code, valid_window=1)

None == "None"
NoDate == -1            \* a NULL timestamp
Continue == 0           \* a middleware returned None: the request goes on
Users == {"alice", "bob"}
Issuers == 1..NumIssuers
RootCAName == "JumpServer Root CA"
InternalCAName == "JumpServer Internal CA"

(***************************************************************************)
(* Text helpers                                                            *)
(***************************************************************************)
DecDigits == <<"0", "1", "2", "3", "4", "5", "6", "7", "8", "9">>

RECURSIVE NatStr(_)
NatStr(n) == IF n < 10 THEN <<DecDigits[n + 1]>>
             ELSE NatStr(n \div 10) \o <<DecDigits[(n % 10) + 1]>>

\* Python str(int)
IntStr(n) == IF n < 0 THEN <<"-">> \o NatStr(0 - n) ELSE NatStr(n)

HexValue(c) ==
    CASE c = "0" -> 0 [] c = "1" -> 1 [] c = "2" -> 2 [] c = "3" -> 3
      [] c = "4" -> 4 [] c = "5" -> 5 [] c = "6" -> 6 [] c = "7" -> 7
      [] c = "8" -> 8 [] c = "9" -> 9
      [] c \in {"a", "A"} -> 10 [] c \in {"b", "B"} -> 11
      [] c \in {"c", "C"} -> 12 [] c \in {"d", "D"} -> 13
      [] c \in {"e", "E"} -> 14 [] c \in {"f", "F"} -> 15
      [] OTHER -> -1

RECURSIVE HexDigitsValue(_, _)
HexDigitsValue(s, acc) ==
    IF s = <<>> THEN acc
    ELSE HexDigitsValue(Tail(s), acc * 16 + HexValue(Head(s)))

RECURSIVE StripLeft(_)
StripLeft(s) == IF s # <<>> /\ Head(s) = " " THEN StripLeft(Tail(s)) ELSE s

RECURSIVE StripRight(_)
StripRight(s) == IF s # <<>> /\ s[Len(s)] = " "
                 THEN StripRight(SubSeq(s, 1, Len(s) - 1)) ELSE s

ValueError == [ok |-> FALSE, value |-> 0]

NotUnderscore(c) == c # "_"

RECURSIVE DecDigitsValue(_, _)
DecDigitsValue(s, acc) ==
    IF s = <<>> THEN acc
    ELSE DecDigitsValue(Tail(s), acc * 10 + HexValue(Head(s)))

\* Python int(s): surrounding whitespace and an optional sign are accepted;
\* anything but decimal digits raises ValueError
ParseInt(s) ==
    LET t == StripRight(StripLeft(s))
        neg == t # <<>> /\ Head(t) = "-"
        u == IF t # <<>> /\ Head(t) \in {"-", "+"} THEN Tail(t) ELSE t
    IN  IF u = <<>> \/ \E i \in 1..Len(u) :
                          HexValue(u[i]) < 0 \/ HexValue(u[i]) > 9
        THEN ValueError
        ELSE [ok |-> TRUE,
              value |-> IF neg THEN 0 - DecDigitsValue(u, 0)
                        ELSE DecDigitsValue(u, 0)]

\* Python int(s, 16): surrounding whitespace, an optional sign, an
\* optional 0x prefix and single underscores between digits or after the
\* prefix are accepted; anything else raises ValueError.  The result is a
\* record: ok is FALSE for ValueError.  The stages follow the order in
\* which the conversion consumes the text.
HasHexPrefix(u) == Len(u) >= 2 /\ u[1] = "0" /\ u[2] \in {"x", "X"}

\* every underscore stands between two digits, or between prefix and digit
Grouped(v, prefix) ==
    \A i \in 1..Len(v) :
        v[i] = "_" => /\ i < Len(v)
                      /\ v[i + 1] # "_"
                      /\ i > 1 \/ prefix

ParseHexDigits(d, grouped, neg) ==
    IF d = <<>> \/ ~grouped \/ \E i \in 1..Len(d) : HexValue(d[i]) < 0
    THEN ValueError
    ELSE [ok |-> TRUE,
          value |-> IF neg THEN 0 - HexDigitsValue(d, 0)
                    ELSE HexDigitsValue(d, 0)]

ParseHexBody(v, prefix, neg) ==
    ParseHexDigits(SelectSeq(v, NotUnderscore), Grouped(v, prefix), neg)

ParseHexUnsigned(u, neg) ==
    ParseHexBody(IF HasHexPrefix(u) THEN SubSeq(u, 3, Len(u)) ELSE u,
                 HasHexPrefix(u), neg)

ParseHexStripped(t) ==
    ParseHexUnsigned(IF t # <<>> /\ Head(t) \in {"-", "+"} THEN Tail(t) ELSE t,
                     t # <<>> /\ Head(t) = "-")

\* a conversion that reads the header as a decimal number
ParseHexAsDecimal(s) == ParseInt(s)

ParseHex(s) == ParseHexStripped(StripRight(StripLeft(s)))

StartsWith(p, pre) == Len(pre) <= Len(p) /\ SubSeq(p, 1, Len(pre)) = pre

(***************************************************************************)
(* State                                                                   *)
(***************************************************************************)
VARIABLES
    cas,        \* pki_certificate_authority rows, in creation order
    certs,      \* pki_certificate rows, in creation order
    users,      \* users_user rows
    now,        \* the clock, in days
    issuer,     \* the issuance operations in progress, one per process
    issued,     \* number of issuance operations started
    allocLog,   \* (CA, serial) pairs read from the counter, in order
    revocations,\* CertificateRevocation rows written by the API
    crlFile,    \* serials in the CRL file exported for the proxy
    sessions,   \* django_session rows, by session id
    tokens,     \* bearer tokens in the cache
    crlJob,     \* the CRL update task in progress
    renewLog,   \* (old, new) certificate ids, one pair per renewal that issued
    last        \* the response of the request handled by the latest step

vars == <<cas, certs, users, now, issuer, issued, allocLog, revocations,
          crlFile, sessions, tokens, crlJob, renewLog,
          last>>

issueVars == <<issuer, issued, allocLog>>
authVars == <<sessions, tokens>>

NoRequest == [kind |-> None]

\* what a bootstrap command was run with and the CA table it found; a
\* command has no session and does not pass the middlewares
CommandReport(kind, name, force) ==
    [kind |-> kind, sid |-> "none", gate |-> "not_reached",
     name |-> name, force |-> force, before |-> cas]

\* the CRL update task when it is not running
IdleCrlJob == [pc |-> "idle", ca |-> 0, serials |-> {}, at_start |-> {}]

IdleIssuer == [pc |-> "idle", ca |-> 0, ca_serial |-> 0,
               serial |-> 0, user |-> None, days |-> 0, now |-> 0]

InitUsers == [u \in Users |-> [is_active |-> TRUE, otp_secret_key |-> None,
                               mfa_level |-> 0]]

(***************************************************************************)
(* Certificate store                                                       *)
(***************************************************************************)
\* CertificateAuthority.objects.filter(is_active=True).first() under
\* Meta.ordering = ['-created_at']: the newest active CA, 0 when none.
ActiveCAs == {i \in 1..Len(cas) : cas[i].is_active}

\* a lookup that takes the newest CA whether it is active or not
NewestCA == Len(cas)

ActiveCA == IF ActiveCAs = {} THEN 0
            ELSE CHOOSE i \in ActiveCAs : \A j \in ActiveCAs : j <= i

CertIds == 1..Len(certs)

\* the PEM body of a certificate: subject, serial and the subject key
CertBody(user, serial, key) ==
    <<"cert", user>> \o IntStr(serial) \o <<"/">> \o IntStr(key)

PemOf(body) == <<"-----BEGIN CERTIFICATE-----", "\n">> \o body
               \o <<"\n", "-----END CERTIFICATE-----", "\n">>

NewCertificate(ca, user, serial, not_before, days) ==
    [ca |-> ca, user |-> user, cert_type |-> "user",
     serial_number |-> IntStr(serial),
     certificate |-> PemOf(CertBody(user, serial, Len(certs) + 1)),
     not_before |-> not_before, not_after |-> not_before + days,
     revoked |-> FALSE, revocation_date |-> NoDate, revocation_reason |-> None,
     status |-> "valid"]

\* Certificate.is_valid
IsValid(c) == ~c.revoked /\ c.not_before <= now /\ now <= c.not_after

(***************************************************************************)
(* CA bootstrap                                                            *)
(***************************************************************************)
\* an existence check that sees active CAs only
NameTakenByActive(name) ==
    \E i \in 1..Len(cas) : cas[i].name = name /\ cas[i].is_active

\* CertificateAuthority.objects.filter(name=...).exists()
NameTaken(name) == \E i \in 1..Len(cas) : cas[i].name = name

\* CAManager.create_ca: INSERT with serial_number=1; name is unique=True, so
\* the INSERT raises IntegrityError when the name exists.
CAManagerCreateCA(store, name) ==
    IF \E i \in 1..Len(store) : store[i].name = name
    THEN store
    ELSE Append(store, [name |-> name, serial_number |-> CAManagerFirstSerial,
                        is_active |-> TRUE])

\* manage.py init_pki [--ca-name name] [--force]
InitPki(name, force) ==
    LET existing == {i \in 1..Len(cas) : cas[i].name = name /\ cas[i].is_active}
    IN  /\ Len(cas) < MaxCAs
        /\ IF existing # {} /\ ~force
           THEN UNCHANGED cas
           ELSE LET deact == [i \in 1..Len(cas) |->
                                IF i \in existing
                                THEN [cas[i] EXCEPT !.is_active = FALSE]
                                ELSE cas[i]]
                IN  cas' = CAManagerCreateCA(deact, name)
        /\ last' = CommandReport("init_pki", name, force)
        /\ UNCHANGED <<certs, users, now, issueVars, revocations, crlFile, crlJob, renewLog, authVars>>

\* manage.py create_ca
CreateCaCommand ==
    /\ Len(cas) < MaxCAs
    /\ IF NameTaken(RootCAName)
       THEN UNCHANGED cas
       ELSE cas' = Append(cas, [name |-> RootCAName,
                                serial_number |-> CreateCaFirstSerial,
                                is_active |-> TRUE])
    /\ last' = CommandReport("create_ca", RootCAName, FALSE)
    /\ UNCHANGED <<certs, users, now, issueVars, revocations, crlFile, crlJob, renewLog, authVars>>

(***************************************************************************)
(* Issuance.  Every path (CAManager.issue_user_certificate, issue_user_cert,*)
(* generate_missing_certs --username, the post_save signal) has the same   *)
(* three database steps: SELECT the CA, UPDATE its counter from the        *)
(* in-memory copy, INSERT the certificate.                                 *)
(***************************************************************************)
IssueKinds == {"manager", "issue_user_cert", "generate_missing_certs", "signal"}

\* how an issuance operation started: the path it came by, the user it is
\* for, what it found ("ca_loaded", "no_active_ca", "has_certificate",
\* "TypeError") and the tables as it found them
IssueReport(path, user, outcome) ==
    [kind |-> "issue", sid |-> "none", gate |-> "not_reached",
     path |-> path, user |-> user, outcome |-> outcome,
     before |-> [cas |-> cas, certs |-> certs, issuer |-> issuer]]

\* the post_save signal returns at once for a user with a certificate
\* that is not revoked
SignalSkips(user) ==
    \E i \in CertIds : certs[i].user = user /\ ~certs[i].revoked

\* the tests an issuance path makes before it touches the CA
IssueStart(kind, user) ==
    IF kind = "signal" /\ SignalSkips(user) THEN "has_certificate"
    ELSE IF ActiveCA = 0 THEN "no_active_ca"
    ELSE "ca_loaded"

\* step 1: the caller loads the active CA row
IssueLoadCA(p, kind, user, days) ==
    /\ issuer[p].pc = "idle"
    /\ issued < MaxIssues
    /\ kind = "signal" => days = DefaultValidityDays
    /\ issued' = issued + 1
    /\ IF IssueStart(kind, user) # "ca_loaded"
       THEN issuer' = [issuer EXCEPT ![p] = IdleIssuer]
       ELSE issuer' = [issuer EXCEPT ![p] =
                [IdleIssuer EXCEPT !.pc = "loaded", !.ca = ActiveCA,
                     !.ca_serial = cas[ActiveCA].serial_number,
                     !.user = user, !.days = days]]
    /\ last' = IssueReport(kind, user, IssueStart(kind, user))
    /\ UNCHANGED <<cas, certs, users, now, allocLog, revocations, crlFile, crlJob, renewLog, authVars>>

\* step 2: serial = ca.serial_number; ca.serial_number += 1;
\*         ca.save(update_fields=['serial_number'])
IssueAllocSerial(p) ==
    /\ issuer[p].pc = "loaded"
    /\ issuer' = [issuer EXCEPT ![p].pc = "allocated",
                                ![p].serial = issuer[p].ca_serial,
                                ![p].ca_serial = issuer[p].ca_serial + 1,
                                ![p].now = now]
    /\ cas' = [cas EXCEPT ![issuer[p].ca].serial_number = issuer[p].ca_serial + 1]
    /\ allocLog' = Append(allocLog, <<issuer[p].ca, issuer[p].ca_serial>>)
    /\ last' = NoRequest
    /\ UNCHANGED <<certs, users, now, issued, revocations, crlFile, crlJob, renewLog, authVars>>

\* POST /api/v1/pki/certificates/issue/ (UserCertificateViewSet.issue) by a
\* caller with the permission, for an existing user.  The view answers 400
\* when the user has a certificate with status 'valid' that has not
\* expired and 500 when there is no active CA; otherwise it calls
\* issue_user_certificate with key_algorithm and key_size, which the
\* method does not take: TypeError, caught, 500.  No branch writes.
ApiIssue(user, days) ==
    LET outcome ==
            IF \E i \in CertIds : /\ certs[i].user = user
                                  /\ certs[i].status = "valid"
                                  /\ certs[i].not_after > now
            THEN "has_certificate"
            ELSE IF ActiveCA = 0 THEN "no_active_ca"
            ELSE "TypeError"
    IN  /\ last' = IssueReport("api_issue", user, outcome)
        /\ UNCHANGED <<cas, certs, users, now, issueVars, revocations,
                       crlFile, crlJob, renewLog, authVars>>

\* a table without the unique index
InsertCertificateNoIndex(store, row) == Append(store, row)

\* the unique index on pki_certificate.serial_number
InsertCertificate(store, row) ==
    IF \E i \in 1..Len(store) : store[i].serial_number = row.serial_number
    THEN store
    ELSE Append(store, row)

\* step 3: Certificate.objects.create(...)
IssueCreate(p) ==
    LET row == NewCertificate(issuer[p].ca, issuer[p].user, issuer[p].serial,
                              issuer[p].now, issuer[p].days)
    IN  /\ issuer[p].pc = "allocated"
        /\ certs' = InsertCertificate(certs, row)
        /\ issuer' = [issuer EXCEPT ![p] = IdleIssuer]
        /\ last' = NoRequest
        /\ UNCHANGED <<cas, users, now, issued, allocLog, revocations, crlFile, crlJob, renewLog, authVars>>

Tick ==
    /\ now < MaxTime
    /\ now' = now + 1
    /\ last' = NoRequest
    /\ UNCHANGED <<cas, certs, users, issueVars, revocations, crlFile, crlJob, renewLog, authVars>>

(***************************************************************************)
(* Revocation                                                              *)
(***************************************************************************)
\* Certificate.revoke(reason)
CertificateRevoke(i, reason) ==
    /\ i \in CertIds
    /\ certs' = [certs EXCEPT ![i].revoked = TRUE,
                              ![i].revocation_date = now,
                              ![i].revocation_reason = reason]
    /\ last' = NoRequest
    /\ UNCHANGED <<cas, users, now, issueVars, revocations, crlFile, crlJob, renewLog, authVars>>

\* the entries of a CRL built for a CA: int(cert.serial_number) for cert in
\* Certificate.objects.filter(ca=ca, revoked=True)
CrlSerials(store, ca) ==
    {ParseInt(store[i].serial_number).value :
        i \in {j \in 1..Len(store) : /\ store[j].ca = ca
                                      /\ store[j].revoked
                                      /\ ParseInt(store[j].serial_number).ok}}

\* CAManager.generate_crl(ca)
GenerateCrl(ca) == CrlSerials(certs, ca)

\* manage.py update_crl: the CRL of the active CA, written to the CRL file
UpdateCrl(store) ==
    IF ActiveCA = 0 THEN crlFile ELSE CrlSerials(store, ActiveCA)

\* manage.py export_crl --output <the CRL file> [--force]; overwrite: the
\* file is absent or --force is given
ExportCrlCommand(overwrite) ==
    /\ crlFile' = IF overwrite /\ ActiveCA # 0
                  THEN CrlSerials(certs, ActiveCA) ELSE crlFile
    /\ last' = NoRequest
    /\ UNCHANGED <<cas, certs, users, now, issueVars, revocations, authVars,
                   crlJob, renewLog>>

CommandReason == "Revoked by administrator"   \* the default of `reason`

\* manage.py revoke_cert --serial <serial> | <username>, answered yes or no
RevokeCertCommand(by, key, confirm) ==
    LET found == IF by = "serial"
                 THEN {i \in CertIds : certs[i].serial_number = key
                                       /\ ~certs[i].revoked}
                 ELSE {i \in CertIds : certs[i].user = key
                                       /\ ~certs[i].revoked}
    IN  /\ by = "serial" => key \in {certs[i].serial_number : i \in CertIds}
        /\ by = "username" => key \in Users
        /\ IF Cardinality(found) = 1 /\ confirm
           THEN LET i == CHOOSE j \in found : TRUE
                    revoked == [certs EXCEPT
                                  ![i].revoked = TRUE,
                                  ![i].revocation_date = now,
                                  ![i].revocation_reason = CommandReason]
                IN  /\ certs' = revoked
                    /\ crlFile' = UpdateCrl(revoked)
           ELSE UNCHANGED <<certs, crlFile>>
        /\ last' = NoRequest
        /\ UNCHANGED <<cas, users, now, issueVars, revocations, authVars,
                       crlJob, renewLog>>

\* POST /api/v1/pki/certificates/{id}/revoke/ (UserCertificateViewSet.revoke):
\* the view tests and writes `status` and inserts a CertificateRevocation;
\* it does not write the `revoked` column.
ApiRevoke(i, reason) ==
    /\ i \in CertIds
    /\ IF certs[i].status = "revoked"
       THEN UNCHANGED <<certs, revocations>>
       ELSE /\ certs' = [certs EXCEPT ![i].status = "revoked"]
            /\ revocations' = revocations \cup
                   {[certificate |-> i, reason |-> reason]}
    /\ last' = NoRequest
    /\ UNCHANGED <<cas, users, now, issueVars, crlFile, crlJob, renewLog, authVars>>

\* a revoke operation has completed on certificate i
RevokedByOperation(i) == certs[i].revoked \/ certs[i].status = "revoked"

\* The periodic task update_certificate_revocation_list, in the steps that
\* other operations can come between.  at_start records the certificates
\* of the CA on which a revoke operation had completed when the task
\* started.
CrlTaskReport(status) ==
    [kind |-> "crl_task", sid |-> "none", gate |-> "not_reached",
     status |-> status, ca |-> crlJob.ca, listed |-> crlJob.serials,
     at_start |-> crlJob.at_start]

\* step 1: the task selects the active CA, and is skipped without one
CrlTaskStart ==
    /\ crlJob.pc = "idle"
    /\ IF ActiveCA = 0
       THEN /\ UNCHANGED crlJob
            /\ last' = CrlTaskReport("skipped")
       ELSE /\ crlJob' = [pc |-> "loaded", ca |-> ActiveCA, serials |-> {},
                          at_start |-> {i \in CertIds :
                                           /\ certs[i].ca = ActiveCA
                                           /\ RevokedByOperation(i)}]
            /\ last' = NoRequest
    /\ UNCHANGED <<cas, certs, users, now, issueVars, revocations, crlFile,
                   renewLog, authVars>>

\* step 2: generate_crl evaluates Certificate.objects.filter(ca=ca,
\* revoked=True) in one SELECT when the loop over it begins
CrlTaskQuery ==
    /\ crlJob.pc = "loaded"
    /\ crlJob' = [crlJob EXCEPT !.pc = "queried",
                                !.serials = GenerateCrl(crlJob.ca)]
    /\ last' = NoRequest
    /\ UNCHANGED <<cas, certs, users, now, issueVars, revocations, crlFile,
                   renewLog, authVars>>

\* step 3: generate_crl signs the list and inserts the
\* CertificateRevocationList row; the task then writes what generate_crl
\* returned, the model instance, to the CRL file: open(path, 'w') has
\* emptied the file when f.write raises TypeError, and the task ends with
\* status error.  Where no CRL directory is writable the file is left alone
\* and the status is failed.
CrlTaskSign ==
    /\ crlJob.pc = "queried"
    /\ \E writable \in BOOLEAN :
          /\ crlFile' = IF writable THEN {} ELSE crlFile
          /\ last' = CrlTaskReport(IF writable THEN "error" ELSE "failed")
    /\ crlJob' = IdleCrlJob
    /\ UNCHANGED <<cas, certs, users, now, issueVars, revocations, renewLog,
                   authVars>>

(***************************************************************************)
(* Certificate verification                                                *)
(***************************************************************************)
\* the rows whose stored PEM is the presented one: the text the CA signed
SignedRows(pem) == {i \in CertIds : certs[i].certificate = pem}

\* Certificate.objects.filter(serial_number=str(cert.serial_number),
\* revoked=True).exists(): the CA is not part of the filter
RevokedSerialExists(serial) ==
    \E j \in CertIds : certs[j].serial_number = IntStr(serial) /\ certs[j].revoked

VerifyReport(pem, ca, is_valid, error) ==
    [kind |-> "verify_certificate", sid |-> "none", gate |-> "not_reached",
     pem |-> pem, ca |-> ca, is_valid |-> is_valid, error |-> error]

\* CAManager.verify_certificate(cert_pem, ca): the pair it returns.  params
\* is whether the installed cryptography package has
\* Certificate.signature_algorithm_parameters; without it the attribute
\* access raises and the except branch returns the message.  The signature
\* verifies for the text the CA signed and for nothing else; the X.509
\* serial and validity are the ones the row was stored with.
VerifyOutcome(pem, ca, params) ==
    LET rows == {i \in SignedRows(pem) : certs[i].ca = ca}
        i == CHOOSE r \in rows : TRUE
    IN  IF ~params THEN <<FALSE, "AttributeError">>
        ELSE IF rows = {} THEN <<FALSE, "InvalidSignature">>
        ELSE IF now < certs[i].not_before
             THEN <<FALSE, "Certificate not yet valid">>
        ELSE IF now > certs[i].not_after THEN <<FALSE, "Certificate expired">>
        ELSE IF RevokedSerialExists(ParseInt(certs[i].serial_number).value)
             THEN <<FALSE, "Certificate revoked">>
        ELSE <<TRUE, None>>

VerifyCertificate(pem, ca, params) ==
    /\ ca \in 1..Len(cas)
    /\ last' = VerifyReport(pem, ca, VerifyOutcome(pem, ca, params)[1],
                            VerifyOutcome(pem, ca, params)[2])
    /\ UNCHANGED <<cas, certs, users, now, issueVars, revocations, crlFile,
                   crlJob, renewLog, authVars>>

(***************************************************************************)
(* Counter reset and renewal                                               *)
(***************************************************************************)
\* Command._get_max_serial: the highest int(serial) among the certificates
\* of the CA; found is FALSE for None
GetMaxSerial(ca) ==
    LET vals == {ParseInt(certs[i].serial_number).value :
                    i \in {j \in CertIds :
                              /\ certs[j].ca = ca
                              /\ ParseInt(certs[j].serial_number).ok}}
    IN  IF vals = {} THEN [found |-> FALSE, value |-> 0]
        ELSE [found |-> TRUE,
              value |-> CHOOSE m \in vals : \A v \in vals : v <= m]

\* the --serial option of reset_pki_state: absent, or an integer
NoSerialOption == [given |-> FALSE, value |-> 0]
SerialOptions == {NoSerialOption} \cup [given : {TRUE}, value : {-1, 0, 1, 2}]

\* manage.py reset_pki_state [--serial n] [--export-crl <the CRL file>]
ResetPkiState(requested, export) ==
    LET ca == ActiveCA
        requested_serial == requested.given /\ requested.value # 0
        max_serial == GetMaxSerial(ca)
        next_serial == IF requested_serial THEN requested.value
                       ELSE IF max_serial.found THEN max_serial.value + 1
                       ELSE 1
    IN  /\ IF ca = 0 \/ (requested_serial /\ requested.value <= 0)
           THEN UNCHANGED <<cas, crlFile>>
           ELSE /\ cas' = [cas EXCEPT ![ca].serial_number = next_serial]
                /\ crlFile' = IF export THEN GenerateCrl(ca) ELSE crlFile
        /\ last' = NoRequest
        /\ UNCHANGED <<certs, users, now, issueVars, revocations, authVars,
                       crlJob, renewLog>>

\* the renewal log after a renewal of certificate old: a pair is added
\* when the renewal inserted a certificate
LogRenewal(log, old, before, after) ==
    IF Len(after) > Len(before) THEN Append(log, <<old, Len(after)>>) ELSE log

\* what a renewal was asked for and answered, and the certificate table it
\* found
RenewReport(i, status) ==
    [kind |-> "renew", sid |-> "none", gate |-> "not_reached",
     cert |-> i, status |-> status, before |-> certs]

\* a renewal that revokes the certificate it replaces
ApiRenewRevokingOld(i, days) ==
    LET ca == certs[i].ca
        serial == cas[ca].serial_number
        row == NewCertificate(ca, certs[i].user, serial, now, days)
        old_revoked == [certs EXCEPT ![i].revoked = TRUE,
                                     ![i].revocation_date = now,
                                     ![i].revocation_reason = "superseded"]
    IN  /\ i \in CertIds
        /\ IF certs[i].status = "revoked"
           THEN /\ UNCHANGED <<cas, certs, issued, allocLog, renewLog>>
                /\ last' = RenewReport(i, 400)
           ELSE /\ cas' = [cas EXCEPT ![ca].serial_number = serial + 1]
                /\ issued' = issued + 1
                /\ certs' = InsertCertificate(old_revoked, row)
                /\ allocLog' = Append(allocLog, <<ca, serial>>)
                /\ renewLog' = LogRenewal(renewLog, i, certs, certs')
                /\ last' = RenewReport(i, 500)
        /\ UNCHANGED <<users, now, issuer, revocations, crlFile, crlJob, authVars>>

\* POST /api/v1/pki/certificates/{id}/renew/ (UserCertificateViewSet.renew).
\* CAManager.issue_user_certificate(ca=old_cert.ca, ...) allocates a serial
\* and inserts the new certificate; it returns the Certificate row, and the
\* next statement subscripts that row (cert_data['certificate_pem']):
\* TypeError, caught by `except Exception`, answered 500.  The statements
\* after it, which mark the old certificate superseded, are not reached.
ApiRenew(i, days) ==
    LET ca == certs[i].ca
        serial == cas[ca].serial_number
        row == NewCertificate(ca, certs[i].user, serial, now, days)
    IN  /\ i \in CertIds
        /\ IF certs[i].status = "revoked"
           THEN /\ UNCHANGED <<cas, certs, issued, allocLog, renewLog>>
                /\ last' = RenewReport(i, 400)
           ELSE /\ cas' = [cas EXCEPT ![ca].serial_number = serial + 1]
                /\ issued' = issued + 1
                /\ certs' = InsertCertificate(certs, row)
                /\ allocLog' = Append(allocLog, <<ca, serial>>)
                /\ renewLog' = LogRenewal(renewLog, i, certs, certs')
                /\ last' = RenewReport(i, 500)
        /\ UNCHANGED <<users, now, issuer, revocations, crlFile, crlJob, authVars>>

(***************************************************************************)
(* The renewal job                                                         *)
(***************************************************************************)
RenewThresholdDays == 30         \* timezone.now() + timedelta(days=30)

\* filter(status='valid', not_valid_after__lte=now + 30 days,
\* not_valid_after__gt=now)
ExpiringCerts ==
    {i \in CertIds : /\ certs[i].status = "valid"
                     /\ certs[i].not_after <= now + RenewThresholdDays
                     /\ certs[i].not_after > now}

\* the loop of the job over the selected certificates, newest first
\* (Meta.ordering = ['-created_at']).  For each one issue_user_certificate
\* reads and increments the counter of old_cert.ca and inserts the new
\* certificate; it returns the Certificate row, the next statement
\* subscripts it (cert_data['certificate_pem']) and raises TypeError; the
\* except branch counts a failure, and old_cert.status = 'superseded' is
\* not reached.
RECURSIVE RenewEach(_, _)
RenewEach(st, ids) ==
    IF ids = {} THEN st
    ELSE LET i == CHOOSE x \in ids : \A y \in ids : y <= x
             ca == st.certs[i].ca
             serial == st.cas[ca].serial_number
             row == [NewCertificate(ca, st.certs[i].user, serial, now,
                                    DefaultValidityDays)
                     EXCEPT !.certificate =
                         PemOf(CertBody(st.certs[i].user, serial,
                                        Len(st.certs) + 1))]
             inserted == InsertCertificate(st.certs, row)
         IN  RenewEach([cas |-> [st.cas EXCEPT ![ca].serial_number = serial + 1],
                        certs |-> inserted,
                        allocLog |-> Append(st.allocLog, <<ca, serial>>),
                        renewLog |-> LogRenewal(st.renewLog, i, st.certs,
                                                inserted)],
                       ids \ {i})

\* what a run of the job selected and counted, and the certificate table
\* it found
RenewTaskReport(selected) ==
    [kind |-> "renew_task", sid |-> "none", gate |-> "not_reached",
     selected |-> selected, before |-> certs, renewed |-> 0,
     failed |-> Cardinality(selected)]

\* renew_expiring_user_certificates, one run
RenewTask ==
    LET done == RenewEach([cas |-> cas, certs |-> certs,
                           allocLog |-> allocLog, renewLog |-> renewLog],
                          ExpiringCerts)
    IN  /\ cas' = done.cas
        /\ certs' = done.certs
        /\ allocLog' = done.allocLog
        /\ renewLog' = done.renewLog
        /\ issued' = issued + Cardinality(ExpiringCerts)
        /\ last' = RenewTaskReport(ExpiringCerts)
        /\ UNCHANGED <<users, now, issuer, revocations, crlFile, crlJob,
                       authVars>>

(***************************************************************************)
(* Sessions and requests                                                   *)
(***************************************************************************)
BrowserA == "a"
BrowserB == "b"
Sessions == {BrowserA, BrowserB}     \* session cookies in use
NoCookie == "none"                   \* a request without a session cookie
Secrets == {"S1", "S2"}

EmptySession == [user |-> None, auth_method |-> None,
                 mfa_setup_required |-> FALSE, auth_mfa |-> FALSE,
                 auth_mfa_username |-> None, auth_mfa_time |-> NoDate,
                 pending_mfa_secret |-> None, auth_username |-> None]

\* request.user of the session middleware: the session's user, anonymous
\* when the user is no longer active
SessionUser(sess) ==
    IF sess.user # None /\ users[sess.user].is_active THEN sess.user ELSE None

\* a login that leaves a session with its user
AuthLoginKeepUser(sess, u) ==
    IF sess.user # None THEN sess ELSE [sess EXCEPT !.user = u]

\* django.contrib.auth.login: a session of another user is flushed first
AuthLogin(sess, u) ==
    IF sess.user # None /\ sess.user # u
    THEN [EmptySession EXCEPT !.user = u]
    ELSE [sess EXCEPT !.user = u]

TRADITIONAL_AUTH_URLS == {<<"django-admin">>,
                          <<"api", "v1", "authentication", "auth">>,
                          <<"api", "v1", "authentication", "tokens">>}

MFA_EXEMPT_URLS == {<<"api", "v1", "authentication", "mfa", "setup">>,
                    <<"api", "v1", "authentication", "mfa", "verify-totp">>,
                    <<"api", "v1", "authentication", "mfa", "status">>,
                    <<"api", "v1", "authentication", "auth">>,
                    <<"api", "v1", "authentication", "tokens">>,
                    <<"api", "v1", "users", "me">>,
                    <<"api", "v1", "users", "profile">>,
                    <<"api", "health">>,
                    <<"django-admin">>,
                    <<"setup-mfa">>,
                    <<"mfa-challenge">>,
                    <<"admin">>,
                    <<"static">>,
                    <<"media">>}

IsMfaExempt(path) == \E e \in MFA_EXEMPT_URLS : StartsWith(path, e)

\* a lookup by serial alone
LookupCertificateAnyState(cert_serial) ==
    {i \in CertIds : certs[i].serial_number = cert_serial}

\* the non-revoked certificates with the given decimal serial
LookupCertificate(cert_serial) ==
    {i \in CertIds : certs[i].serial_number = cert_serial /\ ~certs[i].revoked}

\* MTLSAuthenticationMiddleware.process_request.  status Continue: the
\* request goes on to the next middleware.
MTLSAuthenticationMiddleware(sess, req) ==
    IF \E e \in TRADITIONAL_AUTH_URLS : StartsWith(req.path, e)
    THEN [sess |-> IF SessionUser(sess) # None
                   THEN [sess EXCEPT !.auth_method = "password"] ELSE sess,
          status |-> Continue, state |-> "Exempt"]
    ELSE IF SessionUser(sess) # None /\ sess.auth_method = "certificate"
    THEN [sess |-> sess, status |-> Continue, state |-> "AlreadyAuthenticated"]
    ELSE IF req.verify # "SUCCESS" \/ req.serial = <<>>
    THEN [sess |-> sess, status |-> Continue, state |-> "NoCertificate"]
    ELSE IF ~ParseHex(req.serial).ok
    THEN [sess |-> sess, status |-> Continue, state |-> "NoCertificate"]
    ELSE LET found == LookupCertificate(IntStr(ParseHex(req.serial).value))
         IN  IF found = {}
             THEN [sess |-> sess, status |-> 401, state |-> "CertVerifyFailed"]
             ELSE LET user == certs[CHOOSE i \in found : TRUE].user
                  IN  IF user = None
                      THEN [sess |-> sess, status |-> 500,
                            state |-> "CertVerifyFailed"]
                      ELSE IF ~users[user].is_active
                      THEN [sess |-> sess, status |-> 403,
                            state |-> "CertVerifyFailed"]
                      ELSE [sess |-> [AuthLogin(sess, user) EXCEPT
                                !.auth_method = "certificate",
                                !.mfa_setup_required =
                                    IF users[user].otp_secret_key = None
                                    THEN TRUE ELSE @],
                            status |-> Continue, state |-> "CertAccepted"]

\* a gate that asks for MFA setup but never for the MFA challenge
GateWithoutChallenge(sess, path) ==
    IF SessionUser(sess) = None THEN "pass"
    ELSE IF IsMfaExempt(path) THEN "pass"
    ELSE IF sess.mfa_setup_required THEN "setup_required"
    ELSE "pass"

\* MFARequiredMiddleware.process_request, on the session as the mTLS
\* middleware left it
MFARequiredMiddleware(sess, path) ==
    IF SessionUser(sess) = None THEN "pass"
    ELSE IF IsMfaExempt(path) THEN "pass"
    ELSE IF sess.mfa_setup_required
    THEN IF ~StartsWith(path, <<"setup-mfa">>) THEN "setup_required" ELSE "pass"
    ELSE IF ~sess.auth_mfa
    THEN IF ~StartsWith(path, <<"mfa-challenge">>) THEN "challenge_required"
         ELSE "pass"
    ELSE "pass"

\* both middlewares, in order
Middlewares(sess, req) ==
    LET m == MTLSAuthenticationMiddleware(sess, req)
        g == IF m.status = Continue THEN MFARequiredMiddleware(m.sess, req.path)
             ELSE "not_reached"
    IN  [sess |-> m.sess, state |-> m.state, gate |-> g,
         status |-> IF m.status # Continue THEN m.status
                    ELSE IF g = "pass" THEN Continue ELSE 403]

\* AccessTokenAuthentication.authenticate_credentials
NoBearer == [user |-> None, via |-> None]
NoCode == [secret |-> None, skew |-> 0]

TokenUser(bearer) == IF bearer \in tokens THEN bearer.user ELSE None

\* the user the REST framework resolves: bearer token first, then the
\* session user (MTLSSessionAuthentication / SessionAuthentication)
DRFUser(sess, req) ==
    IF TokenUser(req.bearer) # None THEN TokenUser(req.bearer)
    ELSE SessionUser(sess)

\* the user the MFA views act for: request.user, else session['auth_username']
MfaViewUser(sess, req) ==
    IF DRFUser(sess, req) # None THEN DRFUser(sess, req)
    ELSE sess.auth_username

\* a verification without a limit on the age of the code
TotpVerifyNoWindow(secret, code) == code.secret = secret

\* pyotp.TOTP(secret).verify(code, valid_window=1); a code is the pair of the
\* secret it was generated from and the distance, in time steps, between its
\* generation and the verification
TotpVerify(secret, code) ==
    /\ code.secret = secret
    /\ code.skew >= 0 - TotpValidWindow
    /\ code.skew <= TotpValidWindow

SessionOf(s) == IF s = NoCookie THEN EmptySession ELSE sessions[s]

\* a session store that keeps the MFA markers per user: what one session
\* of a user records is copied to the user's other sessions
StoreSessionPerUser(s, sess) ==
    [t \in Sessions |->
        IF t = s THEN sess
        ELSE IF s # NoCookie /\ sess.user # None /\ sessions[t].user = sess.user
        THEN [sessions[t] EXCEPT !.auth_mfa = sess.auth_mfa,
                                 !.auth_mfa_username = sess.auth_mfa_username,
                                 !.auth_mfa_time = sess.auth_mfa_time]
        ELSE sessions[t]]

\* request.session is saved under the session key of the cookie
StoreSession(s, sess) ==
    IF s = NoCookie THEN sessions ELSE [sessions EXCEPT ![s] = sess]

\* the kinds of request the model has
RequestKinds == {"resource", "mfa_setup_get", "mfa_setup_post",
                 "mfa_verify_post", "token_create", "logout"}

\* what the latest request was and how it ended: the session it arrived
\* with, the session store and the user, CA and certificate tables at its
\* arrival, the session as the MFA gate saw it, the state the mTLS pipeline
\* reached, the verdict of the MFA gate,
\* the HTTP status, the identity the view served and the secret that
\* identity had on record when the request arrived
Response(kind, s, req, code, m, status, user) ==
    [kind |-> kind, sid |-> s, req |-> req, code |-> code,
     before |-> SessionOf(s), sessions_before |-> sessions,
     users_before |-> users, cas_before |-> cas, certs_before |-> certs,
     gated |-> m.sess, state |-> m.state,
     gate |-> m.gate, status |-> status, user |-> user,
     secret_before |-> IF user = None THEN None
                       ELSE users[user].otp_secret_key]

(***************************************************************************)
(* Views                                                                   *)
(***************************************************************************)
ProtectedPath == <<"api", "v1", "assets">>
SetupPagePath == <<"setup-mfa">>
ChallengePagePath == <<"mfa-challenge">>
HealthPath == <<"api", "health">>
MfaSetupPath == <<"api", "v1", "authentication", "mfa", "setup">>
MfaVerifyPath == <<"api", "v1", "authentication", "mfa", "verify-totp">>
AuthPath == <<"api", "v1", "authentication", "auth">>
LogoutPath == <<"api", "v1", "authentication", "logout">>
PagePaths == {SetupPagePath, ChallengePagePath, HealthPath}

\* a pipeline that accepts a certificate once and revokes it on use
ResourceRequestOneTime(s, req) ==
    \E m \in {Middlewares(SessionOf(s), req)} :
    LET found == IF ParseHex(req.serial).ok
                 THEN LookupCertificate(IntStr(ParseHex(req.serial).value))
                 ELSE {}
    IN  /\ req.path \in PagePaths \cup {ProtectedPath}
        /\ sessions' = StoreSession(s, m.sess)
        /\ certs' = [i \in CertIds |->
                        IF m.state = "CertAccepted" /\ i \in found
                        THEN [certs[i] EXCEPT !.revoked = TRUE]
                        ELSE certs[i]]
        /\ last' = Response("resource", s, req, NoCode, m,
                            IF m.status # Continue THEN m.status ELSE 200,
                            None)
        /\ UNCHANGED <<cas, users, now, issueVars, revocations, crlFile, crlJob, renewLog,
                       tokens>>

\* a view behind the middlewares: pages and the health check are public,
\* an API resource needs an identity (IsAuthenticated)
ResourceRequest(s, req) ==
    \E m \in {Middlewares(SessionOf(s), req)} :
    LET user == DRFUser(m.sess, req)
        status == IF m.status # Continue THEN m.status
                  ELSE IF req.path \in PagePaths THEN 200
                  ELSE IF user = None THEN 401 ELSE 200
    IN  /\ req.path \in PagePaths \cup {ProtectedPath}
        /\ sessions' = StoreSession(s, m.sess)
        /\ last' = Response("resource", s, req, NoCode, m, status,
                            IF status = 200 THEN user ELSE None)
        /\ UNCHANGED <<cas, certs, users, now, issueVars, revocations,
                       crlFile, crlJob, renewLog, tokens>>

\* a setup start that saves the generated secret to the user at once
MFASetupGetPersisting(s, req, secret) ==
    \E m \in {Middlewares(SessionOf(s), req)} :
    LET user == MfaViewUser(m.sess, req)
        ok == m.status = Continue /\ user # None
    IN  /\ req.path = MfaSetupPath
        /\ users' = IF ok THEN [users EXCEPT ![user].otp_secret_key = secret,
                                             ![user].mfa_level = 2]
                    ELSE users
        /\ sessions' = StoreSession(s, m.sess)
        /\ last' = Response("mfa_setup_get", s, req, NoCode, m,
                            IF ok THEN 200 ELSE 401, user)
        /\ UNCHANGED <<cas, certs, now, issueVars, revocations, crlFile, crlJob, renewLog,
                       tokens>>

\* MFASetupView.get
MFASetupGet(s, req, secret) ==
    \E m \in {Middlewares(SessionOf(s), req)} :
    LET user == MfaViewUser(m.sess, req)
        status == IF m.status # Continue THEN m.status
                  ELSE IF user = None THEN 401
                  ELSE IF users[user].mfa_level > 0
                          /\ users[user].otp_secret_key # None THEN 400
                  ELSE 200
    IN  /\ req.path = MfaSetupPath
        /\ sessions' = StoreSession(s,
               IF status = 200
               THEN [m.sess EXCEPT !.pending_mfa_secret = secret] ELSE m.sess)
        /\ last' = Response("mfa_setup_get", s, req, NoCode, m, status, user)
        /\ UNCHANGED <<cas, certs, users, now, issueVars, revocations,
                       crlFile, crlJob, renewLog, tokens>>

\* a success that sets the flag alone, without who verified and when
MarkMfaVerifiedFlagOnly(sess, user) == [sess EXCEPT !.auth_mfa = TRUE]

\* the session keys both MFA views write on success: auth_mfa,
\* auth_mfa_username and auth_mfa_time; auth_mfa_required = 0 and
\* auth_mfa_type = 'totp' are constants that nothing reads
MarkMfaVerified(sess, user) ==
    [sess EXCEPT !.auth_mfa = TRUE, !.auth_mfa_username = user,
                 !.auth_mfa_time = now]

\* a setup submission that, when the session holds no pending secret,
\* verifies the code against the secret the user has on record
MFASetupPostStoredSecret(s, req, code) ==
    \E m \in {Middlewares(SessionOf(s), req)} :
    LET user == MfaViewUser(m.sess, req)
        secret == IF m.sess.pending_mfa_secret # None \/ user = None
                  THEN m.sess.pending_mfa_secret
                  ELSE users[user].otp_secret_key
        status == IF m.status # Continue THEN m.status
                  ELSE IF user = None THEN 401
                  ELSE IF code = NoCode THEN 400
                  ELSE IF secret = None THEN 400
                  ELSE IF ~TotpVerify(secret, code) THEN 400
                  ELSE 200
    IN  /\ req.path = MfaSetupPath
        /\ users' = IF status = 200
                    THEN [users EXCEPT ![user].otp_secret_key = secret,
                                       ![user].mfa_level = 2]
                    ELSE users
        /\ sessions' = StoreSession(s,
               IF status = 200
               THEN [MarkMfaVerified(AuthLogin(m.sess, user), user)
                        EXCEPT !.pending_mfa_secret = None]
               ELSE m.sess)
        /\ tokens' = IF status = 200
                     THEN tokens \cup {[user |-> user, via |-> "mfa"]}
                     ELSE tokens
        /\ last' = Response("mfa_setup_post", s, req, code, m, status, user)
        /\ UNCHANGED <<cas, certs, now, issueVars, revocations, crlFile, crlJob, renewLog>>

\* MFASetupView.post
MFASetupPost(s, req, code) ==
    \E m \in {Middlewares(SessionOf(s), req)} :
    LET user == MfaViewUser(m.sess, req)
        secret == m.sess.pending_mfa_secret
        logged == IF user = None THEN m.sess
                  ELSE MarkMfaVerified(AuthLogin(m.sess, user), user)
        status == IF m.status # Continue THEN m.status
                  ELSE IF user = None THEN 401
                  ELSE IF code = NoCode THEN 400
                  ELSE IF secret = None THEN 400
                  ELSE IF ~TotpVerify(secret, code) THEN 400
                  \* del request.session['pending_mfa_secret'] raises
                  \* KeyError when auth_login flushed the session
                  ELSE IF logged.pending_mfa_secret = None THEN 500
                  ELSE 200
    IN  /\ req.path = MfaSetupPath
        /\ users' = IF status \in {200, 500}
                    THEN [users EXCEPT ![user].otp_secret_key = secret,
                                       ![user].mfa_level = 2]
                    ELSE users
        /\ sessions' = StoreSession(s,
               IF status = 200 THEN [logged EXCEPT !.pending_mfa_secret = None]
               ELSE IF status = 500 THEN EmptySession
               ELSE m.sess)
        /\ tokens' = IF status = 200
                     THEN tokens \cup {[user |-> user, via |-> "mfa"]}
                     ELSE tokens
        /\ last' = Response("mfa_setup_post", s, req, code, m, status, user)
        /\ UNCHANGED <<cas, certs, now, issueVars, revocations, crlFile, crlJob, renewLog>>

\* the failed submissions to MFAVerifyView.post that the session made in a
\* row just before this one, counted up to MaxFailures
FailuresBefore(s) ==
    IF /\ last.kind = "mfa_verify_post" /\ last.sid = s
       /\ last.gate = "pass" /\ last.user # None /\ last.status = 401
    THEN IF last.failures_before < MaxFailures
         THEN last.failures_before + 1 ELSE MaxFailures
    ELSE 0

\* MFAVerifyView.post
MFAVerifyPost(s, req, code) ==
    \E m \in {Middlewares(SessionOf(s), req)} :
    LET user == MfaViewUser(m.sess, req)
        status == IF m.status # Continue THEN m.status
                  ELSE IF user = None THEN 401
                  ELSE IF code = NoCode THEN 400
                  ELSE IF users[user].otp_secret_key = None THEN 400
                  ELSE IF ~TotpVerify(users[user].otp_secret_key, code) THEN 401
                  ELSE 200
    IN  /\ req.path = MfaVerifyPath
        /\ sessions' = StoreSession(s,
               IF status = 200
               THEN MarkMfaVerified(AuthLogin(m.sess, user), user)
               ELSE m.sess)
        /\ tokens' = IF status = 200
                     THEN tokens \cup {[user |-> user, via |-> "mfa"]}
                     ELSE tokens
        /\ last' = Response("mfa_verify_post", s, req, code, m, status, user)
                    @@ [failures_before |-> FailuresBefore(s)]
        /\ UNCHANGED <<cas, certs, users, now, issueVars, revocations, crlFile, crlJob, renewLog>>

\* TokenCreateApi.create for the credentials of user u.  outcome is what
\* the checks of the AuthMixin raise: AuthFailedError, NeedMoreInfoError
\* (login confirmation pending), or nothing, and then the token is issued.
\* The MFA check between them is commented out in the source.
TokenCreate(s, req, u, outcome) ==
    \E m \in {Middlewares(SessionOf(s), req)} :
    LET status == IF m.status # Continue THEN m.status
                  ELSE IF outcome = "AuthFailedError" THEN 400
                  ELSE IF outcome = "NeedMoreInfoError" THEN 200
                  ELSE 201
    IN  /\ req.path = AuthPath
        /\ outcome \in {"AuthFailedError", "NeedMoreInfoError", "Token"}
        /\ outcome # "AuthFailedError" => users[u].is_active
        /\ sessions' = StoreSession(s,
               IF m.status = Continue /\ outcome = "NeedMoreInfoError"
               THEN [m.sess EXCEPT !.auth_username = u] ELSE m.sess)
        /\ tokens' = IF status = 201
                     THEN tokens \cup {[user |-> u, via |-> "password"]}
                     ELSE tokens
        /\ last' = Response("token_create", s, req, NoCode, m, status,
                            IF outcome = "AuthFailedError" THEN None ELSE u)
        /\ UNCHANGED <<cas, certs, users, now, issueVars, revocations, crlFile, crlJob, renewLog>>

(***************************************************************************)
(* MTLSAuthBackend (authentication/backends/mtls.py)                       *)
(***************************************************************************)
\* a logout that removes the user and leaves the other session keys
LogoutPostKeepData(s, req) ==
    \E m \in {Middlewares(SessionOf(s), req)} :
    LET user == DRFUser(m.sess, req)
        status == IF m.status # Continue THEN m.status
                  ELSE IF user = None THEN 401 ELSE 200
    IN  /\ req.path = LogoutPath
        /\ sessions' = StoreSession(s, IF status = 200
                                       THEN [m.sess EXCEPT !.user = None]
                                       ELSE m.sess)
        /\ last' = Response("logout", s, req, NoCode, m, status, user)
        /\ UNCHANGED <<cas, certs, users, now, issueVars, revocations,
                       crlFile, crlJob, renewLog, tokens>>

\* LogoutApi.post, behind both middlewares and IsAuthenticated:
\* django_logout flushes the session, whoever it belongs to; a bearer token
\* is not touched
LogoutPost(s, req) ==
    \E m \in {Middlewares(SessionOf(s), req)} :
    LET user == DRFUser(m.sess, req)
        status == IF m.status # Continue THEN m.status
                  ELSE IF user = None THEN 401 ELSE 200
    IN  /\ req.path = LogoutPath
        /\ sessions' = StoreSession(s, IF status = 200 THEN EmptySession
                                       ELSE m.sess)
        /\ last' = Response("logout", s, req, NoCode, m, status, user)
        /\ UNCHANGED <<cas, certs, users, now, issueVars, revocations,
                       crlFile, crlJob, renewLog, tokens>>

MTLS_ENABLED == FALSE    \* getattr(settings, 'MTLS_ENABLED', False)

ArmorTokens == {"-----BEGIN CERTIFICATE-----", "-----END CERTIFICATE-----"}
KeepToken(t) == t \notin ArmorTokens /\ t # "\n" /\ t # " "

\* re.sub(r'-----[^-]+-----', '', pem).replace('\n', '').replace(' ', '')
CleanPem(pem) == SelectSeq(pem, KeepToken)

\* hashlib.sha256(..).hexdigest(), taken as collision free
Sha256(text) == <<"sha256">> \o text

\* MTLSAuthBackend.authenticate: the user it returns.  The query filters
\* on certificate_type and is_revoked, which are not fields of Certificate
\* (the fields are cert_type and revoked): filter() raises FieldError and
\* the except branch returns None before any hash is compared.
MTLSAuthBackendAuthenticate(req) ==
    IF ~MTLS_ENABLED THEN None
    ELSE IF req.verify # "SUCCESS" THEN None
    ELSE None

(***************************************************************************)
(* Request inputs                                                          *)
(***************************************************************************)
VerifyResults == {"SUCCESS", "FAILED", "NONE"}

\* a certificate with the subject and serial of certificate i under a key
\* the CA never recorded for it
TamperedPem(i) ==
    PemOf(<<"cert", certs[i].user>> \o certs[i].serial_number \o <<"/", "0">>)

\* the certificates, revoked or not, that carry the presented serial
CertsWithSerial(serial) ==
    IF ParseHex(serial).ok
    THEN {i \in CertIds :
            certs[i].serial_number = IntStr(ParseHex(serial).value)}
    ELSE {}

\* X-SSL-Client-Cert values the proxy can forward with a serial: absent,
\* the certificate as issued, or a re-issued one
RawInputs(serial) ==
    {<<>>} \cup {certs[i].certificate : i \in CertsWithSerial(serial)}
           \cup {TamperedPem(i) : i \in CertsWithSerial(serial)}

\* X-SSL-Client-Serial values: absent, serial 1 as nginx prints it, serial
\* 1 in another spelling, serial 2, not hexadecimal
SerialInputs == {<<>>, <<"0", "1">>, <<"1">>, <<"0", "2">>, <<"z">>}

\* X-SSL-Client-Serial values around the serials 1, 1000 and 1001: as
\* nginx prints them, in lower case, with leading zeros, in decimal, and
\* the other spellings a client can put into the header
SerialSpellings ==
    {<<>>,
     <<"0", "1">>, <<"1">>, <<"0", "2">>,
     <<"3", "E", "8">>, <<"3", "e", "8">>, <<"0", "0", "3", "e", "8">>,
     <<"3", "E", "9">>, <<"1", "0", "0", "0">>, <<"3", "E">>,
     <<"0", "x", "3", "E", "8">>, <<"+", "3", "e", "8">>,
     <<"-", "3", "E", "8">>, <<" ", "3", "E", "8", " ">>,
     <<"3", "_", "E", "8">>, <<"3", "E", "8", "_">>, <<"_", "1">>,
     <<"0", "x">>, <<"3", "G", "8">>, <<"z">>}

Request(path, verify, serial, raw, bearer) ==
    [path |-> path, verify |-> verify, serial |-> serial, raw |-> raw,
     bearer |-> bearer]

\* what the proxy forwards after a handshake: SUCCESS with any serial
\* header, or a failed or absent verification
PipelineRequests ==
    {Request(ProtectedPath, "SUCCESS", x, <<>>, NoBearer) : x \in SerialInputs}
    \cup {Request(ProtectedPath, v, <<"0", "1">>, <<>>, NoBearer) :
               v \in {"FAILED", "NONE"}}

\* verified handshakes together with the forwarded certificate
RawRequests ==
    UNION {{Request(ProtectedPath, "SUCCESS", x, r, NoBearer) :
               r \in RawInputs(x)} : x \in SerialInputs}

\* the requests of a browser, without a certificate or holding the
\* certificate with serial 1, and those of an API client with a bearer token
PlainRequest(path) == Request(path, "NONE", <<>>, <<>>, NoBearer)
BrowserRequests(paths) ==
    {PlainRequest(p) : p \in paths}
    \cup {Request(p, "SUCCESS", <<"0", "1">>, <<>>, NoBearer) : p \in paths}
ApiRequests(paths) ==
    {Request(p, "NONE", <<>>, <<>>, b) : p \in paths, b \in tokens}

\* TOTP codes: none, the current code of a secret, a code of S1 two time
\* steps old
Codes == {NoCode} \cup [secret : Secrets, skew : {0}]
                  \cup {[secret |-> "S1", skew |-> 2]}

(***************************************************************************)
(* Specifications                                                          *)
(***************************************************************************)
Init ==
    /\ cas = <<>>
    /\ certs = <<>>
    /\ users = InitUsers
    /\ now = 0
    /\ issuer = [p \in Issuers |-> IdleIssuer]
    /\ issued = 0
    /\ allocLog = <<>>
    /\ revocations = {}
    /\ crlFile = {}
    /\ sessions = [s \in Sessions |-> EmptySession]
    /\ tokens = {}
    /\ last = NoRequest
    /\ crlJob = IdleCrlJob
    /\ renewLog = <<>>

\* concurrent issuance under the bootstrap commands: init_pki when there
\* is no CA of its name, init_pki --force when that CA is active, create_ca
\* when there is no root CA; the runs that leave the CA table as it is
\* are left to SpecBootstrap
NextIssue ==
    \/ \E force \in BOOLEAN :
          /\ IF \E i \in ActiveCAs : cas[i].name = InternalCAName
             THEN force ELSE ~force /\ ~NameTaken(InternalCAName)
          /\ InitPki(InternalCAName, force)
    \/ /\ ~NameTaken(RootCAName)
       /\ CreateCaCommand
    \/ \E p \in Issuers, k \in IssueKinds, u \in Users :
          IssueLoadCA(p, k, u, DefaultValidityDays)
    \/ \E p \in Issuers : IssueAllocSerial(p)
    \/ \E p \in Issuers : IssueCreate(p)

SpecIssue == Init /\ [][NextIssue]_vars

\* the request pipeline over issuance and the three revoke paths; one
\* browser session and requests without a session cookie; bob may be a
\* disabled account
PipelineIssues == 2
PipelineSessions == {NoCookie, BrowserA}

InitPipeline ==
    /\ Init!1 /\ Init!2 /\ Init!4 /\ Init!5 /\ Init!6 /\ Init!7 /\ Init!8
    /\ Init!9 /\ Init!10 /\ Init!11 /\ Init!12 /\ Init!13
    /\ Init!14
    /\ \E a \in BOOLEAN :
          users = [InitUsers EXCEPT !["bob"].is_active = a]

NextRevocation ==
    \/ /\ cas = <<>>
       /\ InitPki(InternalCAName, FALSE)
    \/ \E u \in Users :
          /\ issued < PipelineIssues
          /\ IssueLoadCA(1, "issue_user_cert", u, DefaultValidityDays)
    \/ IssueAllocSerial(1)
    \/ IssueCreate(1)
    \/ \E i \in CertIds : CertificateRevoke(i, CommandReason)
    \/ \E i \in CertIds, confirm \in BOOLEAN :
          RevokeCertCommand("serial", certs[i].serial_number, confirm)
    \/ \E u \in Users : RevokeCertCommand("username", u, TRUE)
    \/ \E i \in CertIds : ApiRevoke(i, "key_compromise")
    \/ \E s \in PipelineSessions, req \in PipelineRequests :
          ResourceRequest(s, req)

SpecRevocation == InitPipeline /\ [][NextRevocation]_vars

\* the request pipeline while the clock advances past the validity of
\* one-day certificates
NextExpiry ==
    \/ /\ cas = <<>>
       /\ InitPki(InternalCAName, FALSE)
    \/ /\ issued < PipelineIssues
       /\ IssueLoadCA(1, "issue_user_cert", "alice", ShortValidityDays)
    \/ IssueAllocSerial(1)
    \/ IssueCreate(1)
    \/ Tick
    \/ \E i \in CertIds : CertificateRevoke(i, CommandReason)
    \/ \E s \in PipelineSessions, req \in RawRequests :
          ResourceRequest(s, req)

SpecExpiry == Init /\ [][NextExpiry]_vars

\* the browser flows: certificate login for alice, password login, MFA
\* setup and challenge, bearer tokens; one browser session, and API
\* clients that keep no session cookie
MfaSessions == {NoCookie, BrowserA}
PasswordUsers == {"bob"}      \* alice holds a certificate, bob a password

NextMFA ==
    \/ /\ cas = <<>>
       /\ InitPki(InternalCAName, FALSE)
    \/ /\ certs = <<>>
       /\ IssueLoadCA(1, "manager", "alice", DefaultValidityDays)
    \/ IssueAllocSerial(1)
    \/ IssueCreate(1)
    \/ \E req \in BrowserRequests({ProtectedPath, HealthPath}) :
          ResourceRequest(BrowserA, req)
    \/ \E req \in BrowserRequests({ProtectedPath}) \cup ApiRequests({ProtectedPath}) :
          ResourceRequest(NoCookie, req)
    \/ \E req \in BrowserRequests({MfaSetupPath}), secret \in Secrets :
          MFASetupGet(BrowserA, req, secret)
    \/ \E req \in BrowserRequests({MfaSetupPath}), code \in Codes :
          MFASetupPost(BrowserA, req, code)
    \/ \E req \in BrowserRequests({MfaVerifyPath}), code \in Codes :
          MFAVerifyPost(BrowserA, req, code)
    \/ \E s \in MfaSessions, u \in PasswordUsers,
          outcome \in {"AuthFailedError", "NeedMoreInfoError", "Token"} :
          TokenCreate(s, PlainRequest(AuthPath), u, outcome)

SpecMFA == Init /\ [][NextMFA]_vars

\* MFA setup from two browsers that hold alice's certificate
NextSetup ==
    \/ /\ cas = <<>>
       /\ InitPki(InternalCAName, FALSE)
    \/ /\ certs = <<>>
       /\ IssueLoadCA(1, "manager", "alice", DefaultValidityDays)
    \/ IssueAllocSerial(1)
    \/ IssueCreate(1)
    \/ \E s \in Sessions, req \in BrowserRequests({ProtectedPath}) :
          ResourceRequest(s, req)
    \/ \E s \in Sessions, req \in BrowserRequests({MfaSetupPath}),
          secret \in Secrets : MFASetupGet(s, req, secret)
    \/ \E s \in Sessions, req \in BrowserRequests({MfaSetupPath}),
          code \in Codes : MFASetupPost(s, req, code)
    \/ \E s \in Sessions, req \in BrowserRequests({MfaVerifyPath}),
          code \in Codes : MFAVerifyPost(s, req, code)

SpecSetup == Init /\ [][NextSetup]_vars

\* the bootstrap commands under any CA name, with and without --force, the
\* counter reset, and issuance by one operator at a time
BootstrapIssues == 2
CANames == {InternalCAName, RootCAName}

NextBootstrap ==
    \/ \E name \in CANames, force \in BOOLEAN : InitPki(name, force)
    \/ CreateCaCommand
    \/ \E requested \in SerialOptions, export \in BOOLEAN :
          ResetPkiState(requested, export)
    \/ /\ issued < BootstrapIssues
       /\ IssueLoadCA(1, "issue_user_cert", "alice", DefaultValidityDays)
    \/ IssueAllocSerial(1)
    \/ IssueCreate(1)

SpecBootstrap == Init /\ [][NextBootstrap]_vars

\* revocation by the three revoke paths and the CRL, while the clock
\* advances
CrlIssues == 2
RevokeReasons == {CommandReason, "superseded"}

NextCrl ==
    \/ /\ cas = <<>>
       /\ InitPki(InternalCAName, FALSE)
    \/ /\ issued < CrlIssues
       /\ IssueLoadCA(1, "manager", "alice", DefaultValidityDays)
    \/ IssueAllocSerial(1)
    \/ IssueCreate(1)
    \/ Tick
    \/ \E i \in CertIds, reason \in RevokeReasons : CertificateRevoke(i, reason)
    \/ \E i \in CertIds :
          RevokeCertCommand("serial", certs[i].serial_number, TRUE)
    \/ \E i \in CertIds : ApiRevoke(i, "key_compromise")
    \/ \E overwrite \in BOOLEAN : ExportCrlCommand(overwrite)

SpecCrl == Init /\ [][NextCrl]_vars

\* renewal among issuance and revocation; bob may be a disabled account
RenewIssues == 3

NextRenew ==
    \/ /\ cas = <<>>
       /\ InitPki(InternalCAName, FALSE)
    \/ \E u \in Users :
          /\ issued < RenewIssues
          /\ IssueLoadCA(1, "manager", u, DefaultValidityDays)
    \/ IssueAllocSerial(1)
    \/ IssueCreate(1)
    \/ \E i \in CertIds : CertificateRevoke(i, CommandReason)
    \/ \E i \in CertIds : ApiRevoke(i, "key_compromise")
    \/ \E i \in CertIds :
          /\ issued < RenewIssues
          /\ issuer[1].pc = "idle"
          /\ ApiRenew(i, DefaultValidityDays)

SpecRenew == InitPipeline /\ [][NextRenew]_vars

\* every issuance path, one operation at a time, while the CA is created,
\* replaced with --force, and certificates are revoked and expire
PathIssues == 2

NextIssuePaths ==
    \/ \E force \in BOOLEAN :
          /\ IF cas = <<>> THEN ~force ELSE force /\ ActiveCAs # {}
          /\ InitPki(InternalCAName, force)
    \/ \E k \in IssueKinds, u \in Users, days \in {ShortValidityDays} :
          /\ issued < PathIssues
          /\ IssueLoadCA(1, k, u, IF k = "signal" THEN DefaultValidityDays
                                  ELSE days)
    \/ IssueAllocSerial(1)
    \/ IssueCreate(1)
    \/ \E u \in Users :
          /\ issuer[1].pc = "idle"
          /\ ApiIssue(u, DefaultValidityDays)
    \/ \E i \in CertIds : CertificateRevoke(i, CommandReason)
    \/ Tick

SpecIssuePaths == Init /\ [][NextIssuePaths]_vars

\* the serial lookup of the pipeline for every spelling of the serial
\* header, under a CA whose counter starts at 1 (init_pki) or at 1000
\* (create_ca); requests carry no session cookie, so each one is looked up
SerialIssues == 2

NextSerial ==
    \/ /\ cas = <<>>
       /\ InitPki(InternalCAName, FALSE)
    \/ /\ cas = <<>>
       /\ CreateCaCommand
    \/ \E u \in Users :
          /\ issued < SerialIssues
          /\ IssueLoadCA(1, "issue_user_cert", u, DefaultValidityDays)
    \/ IssueAllocSerial(1)
    \/ IssueCreate(1)
    \/ \E i \in CertIds : CertificateRevoke(i, CommandReason)
    \/ \E x \in SerialSpellings :
          ResourceRequest(NoCookie,
                          Request(ProtectedPath, "SUCCESS", x, <<>>, NoBearer))

SpecSerial == Init /\ [][NextSerial]_vars

\* the CRL update task running while certificates are issued and revoked
CrlTaskIssues == 2

NextCrlTask ==
    \/ /\ cas = <<>>
       /\ InitPki(InternalCAName, FALSE)
    \/ /\ issued < CrlTaskIssues
       /\ IssueLoadCA(1, "manager", "alice", DefaultValidityDays)
    \/ IssueAllocSerial(1)
    \/ IssueCreate(1)
    \/ \E i \in CertIds : CertificateRevoke(i, CommandReason)
    \/ \E i \in CertIds : ApiRevoke(i, "key_compromise")
    \/ /\ cas # <<>>
       /\ CrlTaskStart
    \/ CrlTaskQuery
    \/ CrlTaskSign

SpecCrlTask == Init /\ [][NextCrlTask]_vars

(***************************************************************************)
(* Specification: certificate verification                                 *)
(***************************************************************************)
\* verify_certificate called on issued and re-issued certificates while
\* certificates are issued and revoked and the clock advances
VerifyIssues == 2

\* the PEM texts handed to the verification
VerifyInputs ==
    {certs[i].certificate : i \in CertIds} \cup {TamperedPem(i) : i \in CertIds}

NextVerify ==
    \/ /\ cas = <<>>
       /\ InitPki(InternalCAName, FALSE)
    \/ /\ issued < VerifyIssues
       /\ \E days \in {ShortValidityDays, DefaultValidityDays} :
             IssueLoadCA(1, "manager", "alice", days)
    \/ IssueAllocSerial(1)
    \/ IssueCreate(1)
    \/ \E i \in CertIds : CertificateRevoke(i, CommandReason)
    \/ Tick
    \/ \E pem \in VerifyInputs, ca \in 1..Len(cas), params \in BOOLEAN :
          VerifyCertificate(pem, ca, params)

SpecVerify == Init /\ [][NextVerify]_vars

(***************************************************************************)
(* Specification: logout                                                   *)
(***************************************************************************)
\* two browsers that hold alice's certificate: they set up and pass MFA,
\* use the bearer token the challenge returns, and log out
NextLogout ==
    \/ /\ cas = <<>>
       /\ InitPki(InternalCAName, FALSE)
    \/ /\ certs = <<>>
       /\ IssueLoadCA(1, "manager", "alice", DefaultValidityDays)
    \/ IssueAllocSerial(1)
    \/ IssueCreate(1)
    \/ \E s \in Sessions,
          req \in BrowserRequests({ProtectedPath}) \cup ApiRequests({ProtectedPath}) :
          ResourceRequest(s, req)
    \/ \E s \in Sessions, req \in BrowserRequests({MfaSetupPath}),
          secret \in Secrets : MFASetupGet(s, req, secret)
    \/ \E s \in Sessions, req \in BrowserRequests({MfaSetupPath}),
          code \in Codes : MFASetupPost(s, req, code)
    \/ \E s \in Sessions, req \in BrowserRequests({MfaVerifyPath}),
          code \in Codes : MFAVerifyPost(s, req, code)
    \/ \E s \in Sessions,
          req \in BrowserRequests({LogoutPath}) \cup ApiRequests({LogoutPath}) :
          LogoutPost(s, req)

SpecLogout == Init /\ [][NextLogout]_vars

(***************************************************************************)
(* Specification: one browser, two certificates                            *)
(***************************************************************************)
\* alice and bob both hold a certificate (serials 1 and 2) and use the
\* same browser session: requests carry no certificate, alice's or bob's
IdentityIssues == 2

IdentityRequests(paths) ==
    {PlainRequest(p) : p \in paths}
    \cup {Request(p, "SUCCESS", x, <<>>, NoBearer) :
             p \in paths, x \in {<<"0", "1">>, <<"0", "2">>}}

NextIdentity ==
    \/ /\ cas = <<>>
       /\ InitPki(InternalCAName, FALSE)
    \/ /\ issued < IdentityIssues
       /\ IssueLoadCA(1, "manager", IF issued = 0 THEN "alice" ELSE "bob",
                      DefaultValidityDays)
    \/ IssueAllocSerial(1)
    \/ IssueCreate(1)
    \/ \E req \in IdentityRequests({ProtectedPath, HealthPath}) :
          ResourceRequest(BrowserA, req)
    \/ \E req \in IdentityRequests({MfaSetupPath}), secret \in Secrets :
          MFASetupGet(BrowserA, req, secret)
    \/ \E req \in IdentityRequests({MfaSetupPath}), code \in Codes :
          MFASetupPost(BrowserA, req, code)
    \/ \E req \in IdentityRequests({MfaVerifyPath}), code \in Codes :
          MFAVerifyPost(BrowserA, req, code)

SpecIdentity == Init /\ [][NextIdentity]_vars

(***************************************************************************)
(* Specification: the renewal job                                          *)
(***************************************************************************)
\* certificates that expire soon are issued to alice; the renew action of
\* the API and the renewal job run on them, also more than once, while
\* certificates are revoked and the clock advances
RenewJobIssues == 3

NextRenewJob ==
    \/ /\ cas = <<>>
       /\ InitPki(InternalCAName, FALSE)
    \/ /\ certs = <<>>
       /\ IssueLoadCA(1, "issue_user_cert", "alice", ShortValidityDays)
    \/ IssueAllocSerial(1)
    \/ IssueCreate(1)
    \/ \E i \in CertIds :
          /\ issued < RenewJobIssues
          /\ issuer[1].pc = "idle"
          /\ ApiRenew(i, DefaultValidityDays)
    \/ /\ issued + Cardinality(ExpiringCerts) <= RenewJobIssues
       /\ issuer[1].pc = "idle"
       /\ cas # <<>>
       /\ RenewTask
    \/ \E i \in CertIds : CertificateRevoke(i, CommandReason)
    \/ Tick

SpecRenewJob == Init /\ [][NextRenewJob]_vars

(***************************************************************************)
(* Properties: serial allocation                                           *)
(***************************************************************************)
\* two allocations took the same value from the counter of the same CA
SharedRead ==
    \E a, b \in 1..Len(allocLog) : a # b /\ allocLog[a] = allocLog[b]

\* C1: whatever issuance operations run concurrently against a CA, the
\* certificates they produce (the rows they persist) carry pairwise
\* distinct serial numbers.
C1_SerialsPairwiseDistinct ==
    \A i, j \in CertIds :
        i # j => certs[i].serial_number # certs[j].serial_number

\* two operations allocated the same serial, both ran to their INSERT, and
\* other certificates were produced beside the one that kept the serial
C1_Witness ==
    /\ SharedRead
    /\ Len(certs) >= 2
    /\ \A p \in Issuers : issuer[p].pc = "idle"

\* C2: serial allocation is serialized per CA: no two issuance operations
\* on the same CA read the same next-serial value from its counter.
C2_NoSharedRead == ~SharedRead

(***************************************************************************)
(* Properties: the mTLS pipeline                                           *)
(***************************************************************************)
\* the latest step was a request that presented verification SUCCESS and
\* the serial of certificate i
Presented(i) ==
    /\ last.kind = "resource"
    /\ last.req.verify = "SUCCESS"
    /\ i \in CertsWithSerial(last.req.serial)

\* C3: once a certificate is revoked through any revoke operation (the API
\* revoke action, the revoke_cert command, Certificate.revoke), every later
\* request that presents SUCCESS and its serial ends in CertVerifyFailed.
C3_RevokedSerialRejected ==
    \A i \in CertIds :
        Presented(i) /\ RevokedByOperation(i) => last.state = "CertVerifyFailed"

\* C6: a request presenting the serial of a non-revoked certificate whose
\* validity window does not contain the current time never reaches
\* CertAccepted.
C6_OutsideValidityNeverAccepted ==
    \A i \in CertIds :
        Presented(i) /\ ~certs[i].revoked
                     /\ ~(certs[i].not_before <= now /\ now <= certs[i].not_after)
            => last.state # "CertAccepted"

\* C7: when the proxy forwards raw certificate bytes whose canonical
\* content hash differs from the hash of the certificate issued under the
\* presented serial, a request with SUCCESS and a valid serial is not
\* accepted and no session is established.
C7_ReissuedNeverAccepted ==
    \A i \in CertIds :
        Presented(i) /\ IsValid(certs[i]) /\ last.req.raw # <<>>
                     /\ Sha256(CleanPem(last.req.raw))
                            # Sha256(CleanPem(certs[i].certificate))
            => last.state # "CertAccepted"

\* the conditions under which the pipeline may log a principal in
LoginJustified ==
    last.kind = "resource" /\ last.state = "CertAccepted" =>
        /\ last.req.verify = "SUCCESS"
        /\ last.req.serial # <<>>
        /\ ParseHex(last.req.serial).ok
        /\ \E i \in CertIds :
              /\ certs[i].serial_number = IntStr(ParseHex(last.req.serial).value)
              /\ ~certs[i].revoked
              /\ certs[i].user # None
              /\ users[certs[i].user].is_active
              /\ last.sid # NoCookie => sessions[last.sid].user = certs[i].user

\* C8: the pipeline logs a principal into a session only on a request with
\* verification SUCCESS and a serial that is present, parses and names a
\* non-revoked certificate whose principal is active; no other request
\* (FAILED or NONE, a missing or malformed serial, no such certificate, an
\* inactive principal) changes the user of the session it arrived with.
C8_LoginOnlyWhenVerified ==
    /\ LoginJustified
    /\ last.kind = "resource" /\ last.sid # NoCookie
          /\ sessions[last.sid].user # last.before.user
          => last.state = "CertAccepted"

\* a login happened on a stored session while another certificate is
\* revoked and bob's account is disabled
C8_Witness ==
    /\ last.kind = "resource"
    /\ last.state = "CertAccepted"
    /\ last.sid # NoCookie
    /\ sessions[last.sid].user = "alice"
    /\ ~users["bob"].is_active
    /\ \E i \in CertIds : certs[i].revoked

(***************************************************************************)
(* Properties: the MFA gate and the MFA views                              *)
(***************************************************************************)
\* the latest request reached the MFA gate with an authenticated session
\* and a path outside the allow-list
Gated ==
    /\ last.kind # None
    /\ last.gate # "not_reached"
    /\ SessionUser(last.gated) # None
    /\ ~IsMfaExempt(last.req.path)

\* C4: for an authenticated session the MFA gate lets a request to a path
\* outside the allow-list through only when the session is MFA verified;
\* a session that is not verified (setup required, challenge required) is
\* answered 403.
C4_GateOnlyWhenVerified ==
    Gated => /\ last.gate = "pass" => last.gated.auth_mfa
             /\ ~last.gated.auth_mfa => last.gate # "pass" /\ last.status = 403

\* the gate let a verified session through to a protected path
C4_Witness ==
    /\ Gated
    /\ last.gate = "pass"
    /\ last.gated.auth_mfa
    /\ last.status = 200

\* C5: end to end: a session that was accepted by certificate with
\* mfa_setup_required and then completed MFA setup with a correct code is
\* MFA verified, and its next request to a non-exempt path is allowed by
\* the gate.
C5_SetupCompletedThenAllowed ==
    /\ last.kind = "resource"
    /\ last.sid # NoCookie
    /\ ~IsMfaExempt(last.req.path)
    /\ last.before.user # None
    /\ last.before.auth_method = "certificate"
    /\ last.before.auth_mfa
    /\ last.before.auth_mfa_username = last.before.user
    /\ users[last.before.user].otp_secret_key # None
    => last.gate = "pass"

\* C9: after a password login and before MFA, nothing issued to the
\* principal gives access to a path outside the allow-list: a request that
\* carries a bearer credential issued by the password login of a principal
\* without a second factor is not served.
C9_PasswordCredentialGated ==
    /\ last.kind = "resource"
    /\ ~IsMfaExempt(last.req.path)
    /\ last.req.bearer \in tokens
    /\ last.req.bearer.via = "password"
    /\ users[last.req.bearer.user].otp_secret_key = None
    => last.status # 200

\* the latest request set the MFA-verified flag of its session, for a
\* principal that had no persisted secret when the request arrived
VerifiedWithoutSecret ==
    /\ last.kind # None
    /\ last.sid # NoCookie
    /\ sessions[last.sid].auth_mfa
    /\ \/ ~last.before.auth_mfa
       \/ last.before.auth_mfa_username # sessions[last.sid].auth_mfa_username
    /\ last.secret_before = None

\* C10: a session whose principal has no persisted secret becomes MFA
\* verified only through a setup submission whose code matches, within the
\* skew window, the secret staged in that same session.
C10_VerifiedOnlyByStagedSecret ==
    VerifiedWithoutSecret =>
        /\ last.kind = "mfa_setup_post"
        /\ last.before.pending_mfa_secret # None
        /\ last.code.secret = last.before.pending_mfa_secret
        /\ last.code.skew >= 0 - TotpValidWindow
        /\ last.code.skew <= TotpValidWindow
        /\ users[sessions[last.sid].user].otp_secret_key
               = last.before.pending_mfa_secret

\* a certificate session in setup-required completed the setup while the
\* other browser had another secret staged
C10_Witness ==
    /\ VerifiedWithoutSecret
    /\ last.before.mfa_setup_required
    /\ last.before.auth_method = "certificate"
    /\ last.status = 200
    /\ \E t \in Sessions :
          /\ t # last.sid
          /\ sessions[t].pending_mfa_secret # None
          /\ sessions[t].pending_mfa_secret # last.before.pending_mfa_secret

(***************************************************************************)
(* Properties: the CRL, the serial counter and the bootstrap               *)
(***************************************************************************)
\* the serials, as integers, of the certificates of a CA on which a revoke
\* operation has completed
RevokedSerials(ca) ==
    {ParseInt(certs[i].serial_number).value :
        i \in {j \in CertIds : certs[j].ca = ca /\ RevokedByOperation(j)}}

\* C11: after any sequence of issue and revoke operations, the serials
\* listed in the CRL that generate_crl(ca) produces are exactly the serials
\* of that CA's certificates that are revoked at generation time.
C11_CrlListsRevoked ==
    \A ca \in 1..Len(cas) : GenerateCrl(ca) = RevokedSerials(ca)

\* C12: across any sequence of operations (issuance, init_pki,
\* reset_pki_state) the next-serial counter of a CA never decreases.
C12_CounterNeverDecreases ==
    [][\A ca \in 1..Len(cas) :
          cas'[ca].serial_number >= cas[ca].serial_number]_vars

\* C13: a serial number allocated to one issuance is never allocated again
\* to a later issuance, even after a CA is re-created, a further CA is
\* bootstrapped or the counter is reset.
C13_SerialNeverReallocated ==
    \A a, b \in 1..Len(allocLog) : a # b => allocLog[a][2] # allocLog[b][2]

\* C14: in every state reachable after bootstrap by the create_ca command
\* and init_pki, exactly one CertificateAuthority has is_active = true.
C14_ExactlyOneActiveCA ==
    cas # <<>> => Cardinality(ActiveCAs) = 1

\* the CAs of the given name that were active before the latest command
ActiveBefore(name) ==
    {i \in 1..Len(last.before) :
        last.before[i].name = name /\ last.before[i].is_active}

\* C15: init_pki --force, run when an active CA of that name exists, ends
\* with the prior CA deactivated and a new CA of that name persisted and
\* active.
C15_ForceReplacesCA ==
    last.kind = "init_pki" /\ last.force /\ ActiveBefore(last.name) # {} =>
        /\ \A i \in ActiveBefore(last.name) : ~cas[i].is_active
        /\ \E j \in (Len(last.before) + 1)..Len(cas) :
              cas[j].name = last.name /\ cas[j].is_active

\* the latest step re-ran a bootstrap command, without --force, for a CA
\* that already existed
BootstrapRerun ==
    /\ last.kind \in {"init_pki", "create_ca"}
    /\ ~last.force
    /\ \E i \in 1..Len(last.before) : last.before[i].name = last.name

\* C16: re-running bootstrap (init_pki or the create_ca command) when the
\* CA already exists and force is not given leaves the store as it was: no
\* CA created, deactivated or modified, the serial counter unchanged.
C16_RerunIsNoOp ==
    BootstrapRerun => cas = last.before

\* init_pki was re-run for a CA that has issued a certificate since it was
\* created
C16_Witness ==
    /\ BootstrapRerun
    /\ last.kind = "init_pki"
    /\ \E i \in 1..Len(cas), k \in CertIds :
          cas[i].name = last.name /\ cas[i].is_active /\ certs[k].ca = i

(***************************************************************************)
(* Properties: revocation and renewal                                      *)
(***************************************************************************)
\* C17: revoke applied to an already revoked certificate is rejected by
\* every revoke path: the revoked flag, the revocation timestamp and the
\* reason of that certificate stay as they were and no further
\* revocation record is created.
C17_RevokeOfRevokedChangesNothing ==
    [][\A i \in CertIds :
          RevokedByOperation(i) =>
             /\ certs'[i].revoked = certs[i].revoked
             /\ certs'[i].revocation_date = certs[i].revocation_date
             /\ certs'[i].revocation_reason = certs[i].revocation_reason
             /\ {r \in revocations' : r.certificate = i}
                    = {r \in revocations : r.certificate = i}]_vars

\* the latest step was renew(old) on a certificate that no revoke
\* operation had touched
RenewedNonRevoked ==
    /\ last.kind = "renew"
    /\ ~last.before[last.cert].revoked
    /\ last.before[last.cert].status # "revoked"

\* C18: renew(old) on a non-revoked certificate results in a new persisted
\* certificate for the same principal and CA, whose serial differs from
\* old's serial and from every previously issued serial, and in old being
\* marked superseded.
C18_RenewIssuesAndSupersedes ==
    RenewedNonRevoked =>
        /\ \E j \in (Len(last.before) + 1)..Len(certs) :
              /\ certs[j].user = certs[last.cert].user
              /\ certs[j].ca = certs[last.cert].ca
              /\ \A k \in 1..Len(last.before) :
                    certs[j].serial_number # last.before[k].serial_number
        /\ certs[last.cert].status = "superseded"

\* the serial of certificate i as the proxy prints it
HeadersOf(i) == {x \in SerialInputs : i \in CertsWithSerial(x)}

\* C19: renewal is not a revocation: after renew(old), old's revoked flag
\* is still false, old's serial is absent from a CRL generated afterwards,
\* and the mTLS pipeline still accepts old's serial.
C19_RenewalDoesNotRevoke ==
    RenewedNonRevoked =>
        /\ ~certs[last.cert].revoked
        /\ ParseInt(certs[last.cert].serial_number).value
               \notin GenerateCrl(certs[last.cert].ca)
        /\ users[certs[last.cert].user].is_active =>
              \A x \in HeadersOf(last.cert) :
                 MTLSAuthenticationMiddleware(EmptySession,
                     Request(ProtectedPath, "SUCCESS", x, <<>>, NoBearer)).state
                   = "CertAccepted"

\* a renewal was answered, a new certificate was persisted, the principal
\* of the old one is active and another certificate is on the CRL
C19_Witness ==
    /\ RenewedNonRevoked
    /\ Len(certs) > Len(last.before)
    /\ users[certs[last.cert].user].is_active
    /\ HeadersOf(last.cert) # {}
    /\ GenerateCrl(certs[last.cert].ca) # {}

(***************************************************************************)
(* Properties: the session of an accepted certificate                      *)
(***************************************************************************)
\* the latest step was a request on which the mTLS pipeline reached
\* CertAccepted
Accepted ==
    /\ last.kind \in {"resource", "mfa_setup_get", "mfa_setup_post",
                      "mfa_verify_post", "token_create"}
    /\ last.state = "CertAccepted"

\* the certificate the pipeline looked up for the latest request
LookedUp == LookupCertificate(IntStr(ParseHex(last.req.serial).value))

\* the second-factor secret the principal had when the request arrived
SecretAtArrival(u) ==
    IF last.kind = "resource" THEN users[u].otp_secret_key
    ELSE last.secret_before

\* C20: whenever the pipeline reaches CertAccepted, the principal of the
\* session is the user bound to the looked-up certificate, the auth method
\* of the session is `certificate`, the setup-required flag is set if that
\* principal has no second-factor secret, and the pipeline has not set the
\* MFA-verified flag.
C20_AcceptedSession ==
    Accepted =>
        /\ LookedUp # {}
        /\ \A i \in LookedUp : last.gated.user = certs[i].user
        /\ last.gated.auth_method = "certificate"
        /\ SecretAtArrival(last.gated.user) = None
              => last.gated.mfa_setup_required
        /\ last.gated.auth_mfa => last.before.auth_mfa

\* alice's certificate was accepted on a session that bob had verified: the
\* session is alice's, setup is required and the verified flag is gone
C20_Witness ==
    /\ Accepted
    /\ last.before.user = "bob"
    /\ last.before.auth_mfa
    /\ last.gated.user = "alice"
    /\ last.gated.mfa_setup_required
    /\ ~last.gated.auth_mfa

(***************************************************************************)
(* Properties: MFA challenge and setup                                      *)
(***************************************************************************)
\* the MFA markers of a session
MfaMarkers(sess) ==
    <<sess.auth_mfa, sess.auth_mfa_username, sess.auth_mfa_time>>

\* the latest request was a code submitted to the challenge view by a
\* principal that has a secret on record
ChallengeSubmission ==
    /\ last.kind = "mfa_verify_post"
    /\ last.gate = "pass"
    /\ last.user # None
    /\ last.secret_before # None
    /\ last.code # NoCode

\* C21: in the challenge flow a submission whose code is valid for the
\* principal's stored secret is answered 200 and marks the session verified
\* with the verifying username and the time; a submission with an invalid
\* code is answered 401 and leaves the MFA markers of the session as they
\* were; the number of failures before a correct code does not matter.
C21_ChallengeOutcome ==
    ChallengeSubmission =>
        IF TotpVerify(last.secret_before, last.code)
        THEN /\ last.status = 200
             /\ last.sid # NoCookie =>
                   MfaMarkers(sessions[last.sid]) = <<TRUE, last.user, now>>
        ELSE /\ last.status = 401
             /\ MfaMarkers(SessionOf(last.sid)) = MfaMarkers(last.before)

\* a correct code verified a browser session right after MaxFailures
\* failed submissions of that session
C21_Witness ==
    /\ ChallengeSubmission
    /\ last.sid # NoCookie
    /\ last.failures_before = MaxFailures
    /\ ~last.before.auth_mfa
    /\ last.status = 200
    /\ sessions[last.sid].auth_mfa

\* C22: MFA verification is bound to the session: a request of one session,
\* a successful challenge or setup submission included, leaves the MFA
\* markers of every other session as they were; a session becomes verified
\* only by its own successful submission; and a request of a session that
\* holds a principal and is not verified is not served outside the
\* allow-list.
C22_VerificationBoundToSession ==
    last.kind \in RequestKinds =>
        /\ \A t \in Sessions \ {last.sid} :
              MfaMarkers(sessions[t]) = MfaMarkers(last.sessions_before[t])
        /\ /\ last.sid # NoCookie
           /\ sessions[last.sid].auth_mfa
           /\ ~last.before.auth_mfa
           => /\ last.kind \in {"mfa_setup_post", "mfa_verify_post"}
              /\ last.status = 200
        /\ /\ last.kind = "resource"
           /\ ~IsMfaExempt(last.req.path)
           /\ SessionUser(last.gated) # None
           /\ ~last.gated.auth_mfa
           => last.status # 200

\* one browser session of a principal is verified and the other session of
\* the same principal, not verified, was just refused a protected path
C22_Witness ==
    /\ last.kind = "resource"
    /\ last.sid = BrowserB
    /\ last.status = 403
    /\ sessions[BrowserA].auth_mfa
    /\ sessions[BrowserA].user # None
    /\ sessions[BrowserB].user = sessions[BrowserA].user
    /\ ~sessions[BrowserB].auth_mfa
    /\ users[sessions[BrowserB].user].otp_secret_key # None

\* the latest request changed the record of user u
UserWritten(u) == users[u] # last.users_before[u]

\* C23: the persisted second-factor secret of a principal is written only
\* by a setup submission whose code verifies against the secret staged in
\* the submitting session, and what is written is that secret; a setup
\* GET and a submission with a wrong or missing code leave every user
\* record unchanged.
C23_SecretWrittenOnlyBySetup ==
    last.kind \in RequestKinds =>
        \A u \in Users :
            UserWritten(u) =>
                /\ last.kind = "mfa_setup_post"
                /\ last.user = u
                /\ last.code # NoCode
                /\ last.before.pending_mfa_secret # None
                /\ last.gated.pending_mfa_secret = last.before.pending_mfa_secret
                /\ TotpVerify(last.before.pending_mfa_secret, last.code)
                /\ users[u].otp_secret_key = last.before.pending_mfa_secret

\* a setup submission persisted the secret it verified for a user that had
\* none
C23_Witness ==
    /\ last.kind = "mfa_setup_post"
    /\ last.user # None
    /\ UserWritten(last.user)
    /\ last.secret_before = None
    /\ users[last.user].otp_secret_key = last.before.pending_mfa_secret

\* the latest request was a code submitted to the setup view by an
\* identified principal from a session without a pending secret
SetupSubmissionWithoutPending ==
    /\ last.kind = "mfa_setup_post"
    /\ last.gate = "pass"
    /\ last.user # None
    /\ last.code # NoCode
    /\ last.gated.pending_mfa_secret = None

C25_PendingSecretWriteOnce ==
    /\ /\ last.kind = "mfa_setup_get"
       /\ last.sid # NoCookie
       /\ last.gated.pending_mfa_secret # None
       => sessions[last.sid].pending_mfa_secret
              = last.gated.pending_mfa_secret
    /\ /\ last.kind = "mfa_setup_post"
       /\ last.sid # NoCookie
       /\ last.status = 200
       => sessions[last.sid].pending_mfa_secret = None

(***************************************************************************)
(* Properties: issuance paths                                               *)
(***************************************************************************)
\* the latest operation was the start of an issuance that found no active CA
StartedWithoutActiveCA ==
    /\ last.kind = "issue"
    /\ \A i \in 1..Len(last.before.cas) : ~last.before.cas[i].is_active

\* user u had a certificate on record when the latest operation started
HeldCertificateBefore(u) ==
    \E i \in 1..Len(last.before.certs) : last.before.certs[i].user = u

HeldValidCertificateBefore(u) ==
    \E i \in 1..Len(last.before.certs) :
        /\ last.before.certs[i].user = u
        /\ IsValid(last.before.certs[i])

\* C27: issuance does not hard-block a second concurrent certificate: an
\* issuance started, with an active CA, for a principal that already holds
\* a valid (non-revoked, unexpired) certificate is not rejected and goes on
\* to load the CA, on every path.
C27_SecondCertificateNotBlocked ==
    /\ last.kind = "issue"
    /\ ~StartedWithoutActiveCA
    /\ HeldValidCertificateBefore(last.user)
    => last.outcome = "ca_loaded"

(***************************************************************************)
(* Properties: serial canonicalization                                      *)
(***************************************************************************)
HexDigitsUpper == <<"0", "1", "2", "3", "4", "5", "6", "7", "8", "9",
                    "A", "B", "C", "D", "E", "F">>
HexDigitsLower == <<"0", "1", "2", "3", "4", "5", "6", "7", "8", "9",
                    "a", "b", "c", "d", "e", "f">>

\* n written in hexadecimal, upper case, without leading zeros
RECURSIVE ToHex(_)
ToHex(n) == IF n < 16 THEN <<HexDigitsUpper[n + 1]>>
            ELSE ToHex(n \div 16) \o <<HexDigitsUpper[(n % 16) + 1]>>

\* a non-empty string of hexadecimal digits
IsHexDigits(h) ==
    /\ h # <<>>
    /\ \A i \in 1..Len(h) :
          \E k \in 1..16 : h[i] \in {HexDigitsUpper[k], HexDigitsLower[k]}

UpperCase(h) ==
    [i \in 1..Len(h) |->
        IF \E k \in 1..16 : h[i] = HexDigitsLower[k]
        THEN HexDigitsUpper[CHOOSE k \in 1..16 : h[i] = HexDigitsLower[k]]
        ELSE h[i]]

RECURSIVE StripZeros(_)
StripZeros(h) == IF Len(h) > 1 /\ Head(h) = "0" THEN StripZeros(Tail(h)) ELSE h

\* h is n in hexadecimal, in any letter case and with any leading zeros
SpellsInHex(h, n) == IsHexDigits(h) /\ StripZeros(UpperCase(h)) = ToHex(n)

\* the same, for a string with the decorations the conversion tolerates:
\* blanks around it, a plus sign, a 0x prefix, single underscores between
\* digits
Undecorated(h) ==
    LET t == StripRight(StripLeft(h))
        u == IF t # <<>> /\ Head(t) = "+" THEN Tail(t) ELSE t
        prefix == Len(u) >= 2 /\ u[1] = "0" /\ u[2] \in {"x", "X"}
        v == IF prefix THEN SubSeq(u, 3, Len(u)) ELSE u
        single == \A i \in 1..Len(v) :
                     v[i] = "_" => /\ i < Len(v) /\ v[i + 1] # "_"
                                   /\ i > 1 \/ prefix
    IN  IF single THEN SelectSeq(v, NotUnderscore) ELSE <<"_">>

\* the non-revoked certificates whose stored serial is a decimal number that
\* the string h spells
SpelledBy(h) ==
    {i \in CertIds : /\ ~certs[i].revoked
                     /\ ParseInt(certs[i].serial_number).ok
                     /\ SpellsInHex(h, ParseInt(certs[i].serial_number).value)}

\* the latest request came with a verified certificate and a serial header
\* and without a session, so the pipeline looked the serial up
SerialPresented ==
    /\ last.kind = "resource"
    /\ last.sid = NoCookie
    /\ last.req.verify = "SUCCESS"
    /\ last.req.serial # <<>>

\* C28: serial canonicalization: a certificate is found for the serial
\* header exactly when the header is the stored serial in hexadecimal
\* digits (any letter case, any leading zeros), the session is then that
\* certificate's user, and a header that is not a string of hexadecimal
\* digits is never matched to a certificate.
C28_SerialCanonicalization ==
    SerialPresented =>
        /\ last.state = "CertAccepted" <=> SpelledBy(last.req.serial) # {}
        /\ last.state = "CertAccepted" =>
              \E i \in SpelledBy(last.req.serial) :
                  last.gated.user = certs[i].user
        /\ ~IsHexDigits(last.req.serial) => last.state # "CertAccepted"

\* C28 as amended: a certificate is found for the serial header exactly
\* when the header, without the decorations that int(s, 16) tolerates
\* (surrounding blanks, a plus sign, a 0x prefix, single underscores
\* between digits), is the stored serial in hexadecimal digits, any letter
\* case and any leading zeros; the session is then that certificate's
\* user; every other header is never matched to a certificate.
C28_SerialCanonicalizationAmended ==
    SerialPresented =>
        /\ last.state = "CertAccepted"
              <=> SpelledBy(Undecorated(last.req.serial)) # {}
        /\ last.state = "CertAccepted" =>
              \E i \in SpelledBy(Undecorated(last.req.serial)) :
                  last.gated.user = certs[i].user
        /\ ~IsHexDigits(Undecorated(last.req.serial)) =>
              last.state \in {"NoCertificate", "CertVerifyFailed"}

\* the certificate with serial 1000 was found for a header in lower case
\* with leading zeros
C28_Witness ==
    /\ SerialPresented
    /\ last.req.serial = <<"0", "0", "3", "e", "8">>
    /\ last.state = "CertAccepted"
    /\ \E i \in CertIds : /\ certs[i].serial_number = <<"1", "0", "0", "0">>
                          /\ last.gated.user = certs[i].user

(***************************************************************************)
(* Properties: the pipeline's effects                                       *)
(***************************************************************************)
\* C29: processing a request never changes a Certificate or
\* CertificateAuthority record (revoked flag, validity, serial counter,
\* active flag); a request to a resource changes at most the session, and
\* processing the same request again on the session it left changes nothing
\* more.
C29_PipelineFrameAndIdempotence ==
    /\ last.kind \in RequestKinds =>
          /\ cas = last.cas_before
          /\ certs = last.certs_before
    /\ last.kind = "resource" =>
          /\ users = last.users_before
          /\ SessionOf(last.sid) = IF last.sid = NoCookie THEN EmptySession
                                    ELSE last.gated
          /\ MTLSAuthenticationMiddleware(last.gated, last.req).sess
                = last.gated

\* a request logged a certificate's user into a browser session that was
\* another user's or no one's
C29_Witness ==
    /\ last.kind = "resource"
    /\ last.sid # NoCookie
    /\ last.state = "CertAccepted"
    /\ sessions[last.sid] # last.before
    /\ sessions[last.sid].auth_method = "certificate"
    /\ certs = last.certs_before

(***************************************************************************)
(* Properties: CRL generation among revocations                             *)
(***************************************************************************)
\* C30: generate_crl running concurrently with revoke and issuance lists a
\* consistent snapshot: every listed serial belongs to a certificate of the
\* CA on which a revoke operation has completed when the CRL is signed, and
\* every certificate whose revocation was committed before the generation
\* started is listed (so that a revocation committed during a generation
\* is listed at the latest by the next one).
C30_CrlConsistentSnapshot ==
    last.kind = "crl_task" /\ last.status # "skipped" =>
        /\ \A n \in last.listed :
              \E i \in CertIds :
                  /\ certs[i].ca = last.ca
                  /\ ParseInt(certs[i].serial_number).value = n
                  /\ RevokedByOperation(i)
        /\ \A i \in last.at_start :
              ParseInt(certs[i].serial_number).value \in last.listed

(***************************************************************************)
(* Properties: certificate verification                                    *)
(***************************************************************************)
\* the latest step verified a certificate the CA signed, inside its
\* validity window, with a library that can verify it
VerifiedSignedInWindow ==
    /\ last.kind = "verify_certificate"
    /\ last.error \notin {"AttributeError", "InvalidSignature"}
    /\ \E i \in SignedRows(last.pem) :
          /\ certs[i].ca = last.ca
          /\ certs[i].not_before <= now /\ now <= certs[i].not_after

\* C31: verify_certificate does not check revocation: for a certificate
\* signed by the CA and within its validity window the result is success
\* whether or not the revoked flag of the certificate is set.
C31_VerifyIgnoresRevocation ==
    VerifiedSignedInWindow => last.is_valid

(***************************************************************************)
(* Properties: logout                                                      *)
(***************************************************************************)
\* the session keys of the authentication state machine are all absent
NoSessionState(sess) ==
    /\ sess.user = None
    /\ sess.auth_method = None
    /\ ~sess.auth_mfa
    /\ sess.auth_mfa_username = None
    /\ sess.pending_mfa_secret = None
    /\ ~sess.mfa_setup_required

\* the latest request came with a session in the state a logout leaves,
\* for a path outside the allow-list
RequestOfLoggedOutSession ==
    /\ last.kind \in RequestKinds
    /\ last.sid # NoCookie
    /\ last.before = EmptySession
    /\ ~IsMfaExempt(last.req.path)

\* the logout left nothing of the authentication state in the session
LogoutLeavesNothing ==
    last.kind = "logout" /\ last.status = 200 /\ last.sid # NoCookie =>
        /\ NoSessionState(sessions[last.sid])
        /\ sessions[last.sid] = EmptySession

\* the request was not served; at most the first factor was accepted
\* again, and the gate then asked for MFA
NotServedBeforeMfa ==
    /\ last.status # 200
    /\ last.state \in {"NoCertificate", "CertAccepted", "CertVerifyFailed"}
    /\ last.state = "CertAccepted" =>
          /\ ~last.gated.auth_mfa
          /\ last.gate \in {"setup_required", "challenge_required"}

\* C32: a logout destroys the session state: after LogoutApi the session
\* holds no principal, auth method, MFA-verified marker or pending secret;
\* a later request with that session is unauthenticated and is not allowed
\* on a path outside the allow-list before the first factor and MFA have
\* been passed again.
C32_LogoutDestroysSession ==
    /\ LogoutLeavesNothing
    /\ RequestOfLoggedOutSession => NotServedBeforeMfa

\* C32, amended: as above for a later request that carries the session
\* cookie and no bearer token; a bearer token that was issued before the
\* logout stays valid and authenticates the request by itself.
C32_LogoutDestroysSessionAmended ==
    /\ LogoutLeavesNothing
    /\ RequestOfLoggedOutSession /\ last.req.bearer = NoBearer =>
          NotServedBeforeMfa

\* a session that was accepted by certificate and passed MFA logged out
C32_Witness ==
    /\ last.kind = "logout"
    /\ last.status = 200
    /\ last.sid # NoCookie
    /\ last.before.user # None
    /\ last.before.auth_mfa
    /\ last.before.auth_method = "certificate"
    /\ last.req.bearer = NoBearer

(***************************************************************************)
(* Properties: sessions and certificates                                   *)
(***************************************************************************)
\* the latest request came with a session that a certificate established,
\* and every certificate of the session's principal had been revoked by
\* Certificate.revoke when it arrived
SessionOfRevokedCertificate ==
    /\ last.kind \in RequestKinds
    /\ last.sid # NoCookie
    /\ last.before.user # None
    /\ last.before.auth_method = "certificate"
    /\ \E i \in 1..Len(last.certs_before) :
          last.certs_before[i].user = last.before.user
    /\ \A i \in 1..Len(last.certs_before) :
          last.certs_before[i].user = last.before.user =>
              last.certs_before[i].revoked

\* C33: a certificate-authenticated session stops being accepted once its
\* certificate is revoked: after the revoke commits, no later request of a
\* session that was established with that certificate passes the mTLS
\* pipeline as authenticated.
C33_RevokedCertificateEndsSession ==
    SessionOfRevokedCertificate =>
        /\ last.state # "AlreadyAuthenticated"
        /\ SessionUser(last.gated) = None

(***************************************************************************)
(* Properties: the confirmed secret                                        *)
(***************************************************************************)
\* C34: once a principal has a confirmed second-factor secret the setup
\* flow cannot replace it: a setup submission from any session, also one
\* that staged its secret before the confirmation happened in another
\* session, leaves the stored secret unchanged.
C34_ConfirmedSecretNotReplaced ==
    /\ last.kind = "mfa_setup_post"
    /\ last.user # None
    /\ last.secret_before # None
    => users[last.user].otp_secret_key = last.secret_before

(***************************************************************************)
(* Properties: sessions behind the gate                                    *)
(***************************************************************************)
\* the session is authenticated, its principal is active, and the mTLS
\* middleware has set mfa_setup_required in it
SetupFlagged(s) ==
    /\ sessions[s].user # None
    /\ users[sessions[s].user].is_active
    /\ sessions[s].mfa_setup_required

\* no request clears mfa_setup_required in an authenticated session
SetupFlagStays ==
    [][\A s \in Sessions : SetupFlagged(s) => SetupFlagged(s)']_vars

\* a session with mfa_setup_required set is never let through to a path
\* outside the allow-list
SetupFlaggedNeverAllowed ==
    /\ last.kind \in RequestKinds
    /\ last.gate # "not_reached"
    /\ SessionUser(last.gated) # None
    /\ last.gated.mfa_setup_required
    /\ ~IsMfaExempt(last.req.path)
    => last.gate = "setup_required" /\ last.status = 403

\* C35: no authenticated session is stuck: from every reachable state of
\* an authenticated session whose principal is active and supplies correct
\* codes, some sequence of setup and challenge requests leads to a state
\* in which the gate allows paths outside the allow-list.  A session with
\* mfa_setup_required set stays so under every request (SetupFlagStays)
\* and is refused on every such path (SetupFlaggedNeverAllowed), so the
\* claim requires that no authenticated session is ever in that state.
C35_NoSessionStuck ==
    \A s \in Sessions : ~SetupFlagged(s)

(***************************************************************************)
(* Properties: the identity of a certificate session                       *)
(***************************************************************************)
\* the users bound to the non-revoked certificates with the serial the
\* latest request presented with a verified handshake
PresentedPrincipals ==
    IF /\ last.req.verify = "SUCCESS"
       /\ ParseHex(last.req.serial).ok
    THEN {last.certs_before[i].user : i \in
             {j \in 1..Len(last.certs_before) :
                /\ last.certs_before[j].serial_number =
                       IntStr(ParseHex(last.req.serial).value)
                /\ ~last.certs_before[j].revoked}}
    ELSE {}

\* C36: in a certificate-authenticated session the session's principal is
\* the principal bound to the certificate serial presented with the
\* current request: a request that carries another principal's certificate
\* is never served under the identity the session was established with.
C36_SessionPrincipalIsPresented ==
    /\ last.kind \in RequestKinds
    /\ last.gate # "not_reached"
    /\ last.gated.auth_method = "certificate"
    /\ SessionUser(last.gated) # None
    /\ PresentedPrincipals # {}
    => SessionUser(last.gated) \in PresentedPrincipals

(***************************************************************************)
(* Properties: the auth-method tag                                         *)
(***************************************************************************)
\* C37: the auth-method tag of a session records how the session was
\* authenticated: a session established by certificate is not re-tagged
\* password unless a password login took place in it, whatever paths it
\* requests.
C37_AuthMethodTagIsTrue ==
    /\ last.kind \in RequestKinds
    /\ last.sid # NoCookie
    /\ last.before.auth_method = "certificate"
    /\ sessions[last.sid].auth_method = "password"
    => /\ last.kind = "token_create"
       /\ last.status \in {200, 201}

(***************************************************************************)
(* Properties: renewal                                                     *)
(***************************************************************************)
\* the certificates that renewals of certificate i have issued
Successors(i) == {renewLog[k][2] : k \in {n \in 1..Len(renewLog) :
                                            renewLog[n][1] = i}}

\* C38: a certificate has at most one successor: repeated or concurrent
\* renew operations on the same old certificate, by the renew action of
\* the API and by the renewal job in any interleaving, yield exactly one
\* newly issued certificate for it.
C38_AtMostOneSuccessor ==
    \A i \in CertIds : Cardinality(Successors(i)) <= 1

\* C39: the renewal job is idempotent at a fixed time: it selects only
\* certificates that are valid and expire within 30 days, and a second run
\* with no time passing issues no certificate, because the certificates
\* the first run superseded and their 365-day successors are not selected
\* again.
C39_RenewJobIdempotent ==
    last.kind = "renew_task" =>
        /\ \A i \in last.selected :
              /\ last.before[i].status = "valid"
              /\ last.before[i].not_after > now
              /\ last.before[i].not_after <= now + RenewThresholdDays
        /\ ExpiringCerts = {}

====
